---- MODULE Spec2Model ----
(***************************************************************************)
(* A model of the recommendation subsystem of refrain:                     *)
(*   backend/src/services/spotifyService.ts  (SpotifyService, LastFmService)*)
(*   backend/src/routes/spotify.ts           (the /profile,                 *)
(*       /recommendations and /recommendations/custom handlers)             *)
(*                                                                          *)
(* Numbers that are floating point in the program are exact rationals here  *)
(* (records [num, den] in lowest terms); rounding of IEEE doubles is not    *)
(* modelled.  Strings that the program inspects (artist and track names)    *)
(* are sequences of one-character strings, so that concatenation and        *)
(* toLowerCase are computed, not assumed.                                   *)
(***************************************************************************)
EXTENDS Integers, Sequences, FiniteSets, TLC

(***************************************************************************)
(* Bounds of the model.                                                    *)
(***************************************************************************)
NTracks == 4        \* catalog track identifiers are 1..NTracks
NArtists == 2       \* catalog artist identifiers are 1..NArtists
MaxSeeds == 6       \* longest seed list passed to getSpotifyRecommendations

(***************************************************************************)
(* Rational arithmetic.                                                    *)
(***************************************************************************)
Abs(x) == IF x < 0 THEN -x ELSE x

RECURSIVE Gcd(_, _)
Gcd(a, b) == IF b = 0 THEN a ELSE Gcd(b, a % b)

R(n, d) ==
  LET g == Gcd(Abs(n), Abs(d))
      s == IF d < 0 THEN -1 ELSE 1
  IN  [num |-> (s * n) \div g, den |-> (s * d) \div g]

RZero == [num |-> 0, den |-> 1]
ROne == [num |-> 1, den |-> 1]
RInt(n) == [num |-> n, den |-> 1]
\* sums and differences over the least common denominator
RAdd(a, b) ==
  LET g == Gcd(a.den, b.den)
  IN  R(a.num * (b.den \div g) + b.num * (a.den \div g), (a.den \div g) * b.den)
RSub(a, b) ==
  LET g == Gcd(a.den, b.den)
  IN  R(a.num * (b.den \div g) - b.num * (a.den \div g), (a.den \div g) * b.den)
RMul(a, b) == R(a.num * b.num, a.den * b.den)
RDiv(a, b) == R(a.num * b.den, a.den * b.num)
RAbs(a) == [num |-> Abs(a.num), den |-> a.den]
RLt(a, b) == a.num * b.den < b.num * a.den
RLeq(a, b) == a.num * b.den <= b.num * a.den
RInUnit(a) == RLeq(RZero, a) /\ RLeq(a, ROne)

RECURSIVE RSumSeq(_)
RSumSeq(s) ==
  IF s = <<>> THEN RZero
  ELSE IF Len(s) = 1 THEN RAdd(s[1], RZero)
  ELSE LET half == Len(s) \div 2
       IN  RAdd(RSumSeq(SubSeq(s, 1, half)), RSumSeq(SubSeq(s, half + 1, Len(s))))

(***************************************************************************)
(* Generic sequence helpers (Array.prototype.slice / filter / map / flat). *)
(***************************************************************************)
Min(a, b) == IF a < b THEN a ELSE b
Max(a, b) == IF a > b THEN a ELSE b

\* Array.prototype.slice(from, to) with 0-based, possibly negative, indices.
Slice(s, from, to) ==
  LET n == Len(s)
      f == IF from < 0 THEN Max(n + from, 0) ELSE Min(from, n)
      t == IF to < 0 THEN Max(n + to, 0) ELSE Min(to, n)
  IN  IF t <= f THEN <<>> ELSE [i \in 1..(t - f) |-> s[f + i]]

RECURSIVE SelectSeqBy(_, _)
SelectSeqBy(s, keep) ==
  IF s = <<>> THEN <<>>
  ELSE IF Len(s) = 1 THEN (IF s[1] \in keep THEN s ELSE <<>>)
  ELSE LET half == Len(s) \div 2
       IN  SelectSeqBy(SubSeq(s, 1, half), keep)
             \o SelectSeqBy(SubSeq(s, half + 1, Len(s)), keep)

RECURSIVE Flat(_)
Flat(ss) ==
  IF ss = <<>> THEN <<>>
  ELSE IF Len(ss) = 1 THEN ss[1]
  ELSE LET half == Len(ss) \div 2
       IN  Flat(SubSeq(ss, 1, half)) \o Flat(SubSeq(ss, half + 1, Len(ss)))

Range(s) == {s[i] : i \in 1..Len(s)}

(***************************************************************************)
(* Names.  A name is a sequence of characters; toLowerCase maps each       *)
(* character.                                                              *)
(***************************************************************************)
LowerChar(c) ==
  CASE c = "A" -> "a"
    [] c = "B" -> "b"
    [] c = "X" -> "x"
    [] c = "Y" -> "y"
    [] OTHER -> c

ToLowerCase(s) == [i \in 1..Len(s) |-> LowerChar(s[i])]

\* `${artistName}-${trackName}`.toLowerCase()
TrackKey(artistName, trackName) == ToLowerCase(artistName \o <<"-">> \o trackName)

(***************************************************************************)
(* The catalog: tracks, artists and audio feature vectors                  *)
(* (types/spotify.ts).  Only the fields the subsystem reads are kept.      *)
(*   artist i           has name "A<i>" (odd i) or "B<i>" (even i)          *)
(*   track  t           is by artist ((t-1) % NArtists) + 1                 *)
(* Track names are chosen so that two different identifiers can carry the  *)
(* same lower-cased name (a re-release: "x" and "X").                      *)
(***************************************************************************)
TrackIds == 1..NTracks
ArtistIds == 1..NArtists
Genres == <<"pop", "rock">>

Digit(n) == <<"0", "1", "2", "3", "4", "5", "6", "7", "8", "9">>[(n % 10) + 1]
ArtistName(a) == IF a % 2 = 1 THEN <<"A", Digit(a)>> ELSE <<"B", Digit(a)>>
ArtistIdOf(t) == ((t - 1) % NArtists) + 1
TrackName(t) ==
  IF t <= NArtists THEN <<"x">>
  ELSE IF t <= 2 * NArtists - 1 THEN <<"X">>
  ELSE <<"y", Digit(t)>>
TrackPopularity(t) == IF t % 3 = 1 THEN 80 ELSE IF t % 3 = 2 THEN 20 ELSE 50

\* SpotifyTrack
Track(t) ==
  [id |-> t,
   name |-> TrackName(t),
   artists |-> <<[id |-> ArtistIdOf(t), name |-> ArtistName(ArtistIdOf(t))]>>,
   popularity |-> TrackPopularity(t)]

\* SpotifyArtist
Artist(a, genres, popularity) ==
  [id |-> a, name |-> ArtistName(a), genres |-> genres, popularity |-> popularity]

\* track.artists[0]?.name inside a template string
FirstArtistName(track) ==
  IF Len(track.artists) > 0 THEN track.artists[1].name ELSE <<"undefined">>

\* `${track.artists[0]?.name}-${track.name}`.toLowerCase()
SpotifyTrackKey(track) == TrackKey(FirstArtistName(track), track.name)

FeatureNames ==
  <<"danceability", "energy", "valence", "acousticness",
    "instrumentalness", "liveness", "speechiness", "tempo">>

\* AudioFeatures (the eight attributes the subsystem reads, and the id)
Features(id, d, e, v, a, i, l, s, t) ==
  [id |-> id, danceability |-> d, energy |-> e, valence |-> v,
   acousticness |-> a, instrumentalness |-> i, liveness |-> l,
   speechiness |-> s, tempo |-> t]

\* The vector the catalog holds for track t.
CatalogFeatures(t) ==
  IF t % 2 = 1
  THEN Features(t, R(7, 10), R(8, 10), R(6, 10), R(3, 10), R(0, 1), R(1, 10),
                R(1, 20), RInt(100 + 10 * t))
  ELSE Features(t, R(2, 10), R(3, 10), R(1, 2), R(9, 10), R(1, 2), R(3, 10),
                R(1, 10), RInt(80 + 10 * t))

\* The vector substituted when a per-track feature lookup fails
\* (getLastFmRecommendations).
NeutralFeatures(id) ==
  Features(id, R(1, 2), R(1, 2), R(1, 2), R(1, 2), R(1, 10), R(2, 10),
           R(1, 10), RInt(120))

\* The vector attached by getSearchBasedRecommendations and to the mock
\* recommendation of the route.
MockFeatures(id) ==
  Features(id, R(7, 10), R(8, 10), R(6, 10), R(3, 10), R(1, 10), R(2, 10),
           R(1, 10), RInt(120))

(***************************************************************************)
(* calculateAudioSimilarity                                                *)
(***************************************************************************)
weights ==
  [danceability |-> R(15, 100), energy |-> R(15, 100), valence |-> R(15, 100),
   acousticness |-> R(1, 10), instrumentalness |-> R(5, 100),
   liveness |-> R(5, 100), speechiness |-> R(5, 100), tempo |-> R(1, 10)]

\* `avg${feature.charAt(0).toUpperCase() + feature.slice(1)}`
AvgKey(feature) ==
  CASE feature = "danceability" -> "avgDanceability"
    [] feature = "energy" -> "avgEnergy"
    [] feature = "valence" -> "avgValence"
    [] feature = "acousticness" -> "avgAcousticness"
    [] feature = "instrumentalness" -> "avgInstrumentalness"
    [] feature = "liveness" -> "avgLiveness"
    [] feature = "speechiness" -> "avgSpeechiness"
    [] feature = "tempo" -> "avgTempo"

\* The value compared with the listener's average: the track's tempo is
\* divided by 200, every other attribute is taken as it is.
TrackValue(trackFeatures, feature) ==
  IF feature = "tempo" THEN RDiv(trackFeatures.tempo, RInt(200))
  ELSE trackFeatures[feature]

\* The forEach over Object.entries(weights): acc = [sim, weight].
RECURSIVE SimilarityFold(_, _, _, _)
SimilarityFold(userTaste, trackFeatures, names, acc) ==
  IF names = <<>> THEN acc
  ELSE
    LET feature == Head(names)
        defined == AvgKey(feature) \in DOMAIN userTaste
                   /\ feature \in DOMAIN trackFeatures
        userValue == userTaste[AvgKey(feature)]
        trackValue == TrackValue(trackFeatures, feature)
        difference == RAbs(RSub(userValue, trackValue))
        similarity == RSub(ROne, difference)
        next == IF defined
                THEN [sim |-> RAdd(acc.sim, RMul(similarity, weights[feature])),
                      weight |-> RAdd(acc.weight, weights[feature])]
                ELSE acc
    IN  SimilarityFold(userTaste, trackFeatures, Tail(names), next)

calculateAudioSimilarity(userTaste, trackFeatures) ==
  LET acc == SimilarityFold(userTaste, trackFeatures, FeatureNames,
                            [sim |-> RZero, weight |-> RZero])
  IN  IF RLt(RZero, acc.weight) THEN RDiv(acc.sim, acc.weight) ELSE RZero

(***************************************************************************)
(* Optional values (undefined / a value) and JSON values of a request body.*)
(***************************************************************************)
Undefined == [some |-> FALSE]
Some(x) == [some |-> TRUE, v |-> x]
\* x?.length
OptLength(x) == IF x.some THEN Len(x.v) ELSE 0

Null == [kind |-> "null"]
Num(r) == [kind |-> "number", v |-> r]

(***************************************************************************)
(* calculateTasteProfile                                                   *)
(***************************************************************************)
DefaultGenreArtists == 10   \* topArtists.slice(0, 10) of the default branch
MaxPreferredGenres == 10    \* .slice(0, 10) of preferredGenres
MaxPreferredArtists == 20   \* .slice(0, 20) of preferredArtists

\* TasteProfile
TasteProfile(d, e, v, a, i, l, s, t, genres, artists) ==
  [avgDanceability |-> d, avgEnergy |-> e, avgValence |-> v,
   avgAcousticness |-> a, avgInstrumentalness |-> i, avgLiveness |-> l,
   avgSpeechiness |-> s, avgTempo |-> t,
   preferredGenres |-> genres, preferredArtists |-> artists]

\* tracks.map(track => audioFeatures[track.id]).filter(features => features)
RECURSIVE ValidFeatures(_, _)
ValidFeatures(tracks, audioFeatures) ==
  IF tracks = <<>> THEN <<>>
  ELSE IF Len(tracks) = 1
       THEN (IF tracks[1].id \in DOMAIN audioFeatures
             THEN <<audioFeatures[tracks[1].id]>> ELSE <<>>)
  ELSE LET half == Len(tracks) \div 2
       IN  ValidFeatures(SubSeq(tracks, 1, half), audioFeatures)
             \o ValidFeatures(SubSeq(tracks, half + 1, Len(tracks)), audioFeatures)

\* validFeatures.reduce((sum, f) => sum + f[feature], 0) / validFeatures.length
Average(validFeatures, feature) ==
  RDiv(RSumSeq([k \in 1..Len(validFeatures) |-> validFeatures[k][feature]]),
       RInt(Len(validFeatures)))

\* artist.genres.map(genre => ({ genre, weight: artist.popularity }))
GenreEntries(artist) ==
  [k \in 1..Len(artist.genres) |-> [genre |-> artist.genres[k], weight |-> artist.popularity]]

\* topArtists.map(artist => ({ artistId: artist.id, weight: artist.popularity }))
ArtistEntries(topArtists) ==
  [k \in 1..Len(topArtists) |-> [artistId |-> topArtists[k].id, weight |-> topArtists[k].popularity]]

\* genreCount[genre] = (genreCount[genre] || 0) + popularity, the object kept
\* as its entries in insertion order.
RECURSIVE AddGenre(_, _, _)
AddGenre(entries, genre, popularity) ==
  IF entries = <<>> THEN <<[genre |-> genre, weight |-> popularity]>>
  ELSE IF Head(entries).genre = genre
       THEN <<[genre |-> genre, weight |-> Head(entries).weight + popularity]>> \o Tail(entries)
       ELSE <<Head(entries)>> \o AddGenre(Tail(entries), genre, popularity)

RECURSIVE AddGenres(_, _, _)
AddGenres(entries, genres, popularity) ==
  IF genres = <<>> THEN entries
  ELSE AddGenres(AddGenre(entries, Head(genres), popularity), Tail(genres), popularity)

RECURSIVE GenreCount(_, _)
GenreCount(entries, topArtists) ==
  IF topArtists = <<>> THEN entries
  ELSE GenreCount(AddGenres(entries, Head(topArtists).genres, Head(topArtists).popularity),
                  Tail(topArtists))

\* .sort((a, b) => b.weight - a.weight): a stable descending sort.
RECURSIVE InsertByWeight(_, _)
InsertByWeight(sorted, x) ==
  IF sorted = <<>> THEN <<x>>
  ELSE IF Head(sorted).weight >= x.weight
       THEN <<Head(sorted)>> \o InsertByWeight(Tail(sorted), x)
       ELSE <<x>> \o sorted

RECURSIVE SortByWeightDesc(_)
SortByWeightDesc(s) ==
  IF s = <<>> THEN <<>>
  ELSE InsertByWeight(SortByWeightDesc(SubSeq(s, 1, Len(s) - 1)), s[Len(s)])

\* The profile returned when no track has a feature vector.
DefaultTasteProfile(topArtists) ==
  TasteProfile(R(1, 2), R(1, 2), R(1, 2), R(1, 2), R(1, 10), R(2, 10), R(1, 10),
               RInt(120),
               Slice(Flat([k \in 1..Len(Slice(topArtists, 0, DefaultGenreArtists)) |->
                             GenreEntries(topArtists[k])]),
                     0, MaxPreferredGenres),
               Slice(ArtistEntries(topArtists), 0, MaxPreferredArtists))

\* calculateTasteProfile whose default branch forgets the top artists.
calculateTasteProfile_BareDefault(tracks, audioFeatures, topArtists) ==
  LET validFeatures == ValidFeatures(tracks, audioFeatures)
  IN  IF Len(validFeatures) = 0
      THEN DefaultTasteProfile(<<>>)
      ELSE TasteProfile(Average(validFeatures, "danceability"),
                        Average(validFeatures, "energy"),
                        Average(validFeatures, "valence"),
                        Average(validFeatures, "acousticness"),
                        Average(validFeatures, "instrumentalness"),
                        Average(validFeatures, "liveness"),
                        Average(validFeatures, "speechiness"),
                        Average(validFeatures, "tempo"),
                        Slice(SortByWeightDesc(GenreCount(<<>>, topArtists)),
                              0, MaxPreferredGenres),
                        Slice(ArtistEntries(topArtists), 0, MaxPreferredArtists))

calculateTasteProfile(tracks, audioFeatures, topArtists) ==
  LET validFeatures == ValidFeatures(tracks, audioFeatures)
  IN  IF Len(validFeatures) = 0
      THEN DefaultTasteProfile(topArtists)
      ELSE TasteProfile(Average(validFeatures, "danceability"),
                        Average(validFeatures, "energy"),
                        Average(validFeatures, "valence"),
                        Average(validFeatures, "acousticness"),
                        Average(validFeatures, "instrumentalness"),
                        Average(validFeatures, "liveness"),
                        Average(validFeatures, "speechiness"),
                        Average(validFeatures, "tempo"),
                        Slice(SortByWeightDesc(GenreCount(<<>>, topArtists)),
                              0, MaxPreferredGenres),
                        Slice(ArtistEntries(topArtists), 0, MaxPreferredArtists))

(***************************************************************************)
(* buildUserMusicProfile: the synchronous parts.                           *)
(*                                                                         *)
(* priorityTracks and allTracks are Set<SpotifyTrack>: sets of object      *)
(* references.  An object is named by the response it came from and its    *)
(* position there; a Set is kept as its elements in insertion order.       *)
(***************************************************************************)
PriorityRecentCap == 200
PriorityLikedCap == 500
PriorityLikedSlice == 300
PlaylistFetchCap == 10
batchSize == 100
AudioFeaturesApiMax == 100
SpotifyOwner == "Spotify"

Obj(src, pl, idx, track) == [ref |-> [src |-> src, pl |-> pl, idx |-> idx], track |-> track]
Objs(src, pl, tracks) == [k \in 1..Len(tracks) |-> Obj(src, pl, k, tracks[k])]

\* Set.prototype.add.  The loops over a list below run over its first half
\* and then over its second half, which visits the elements in list order;
\* the set built by the first half is taken (its size read) before the second
\* half starts, so that the evaluation never nests deeper than log2 of the
\* list length.
SetAdd(set, obj) ==
  IF \E k \in 1..Len(set) : set[k].ref = obj.ref THEN set ELSE Append(set, obj)

RECURSIVE SetAddAll(_, _)
SetAddAll(set, objs) ==
  IF objs = <<>> THEN set
  ELSE IF Len(objs) = 1 THEN SetAdd(set, objs[1])
  ELSE LET half == Len(objs) \div 2
           first == SetAddAll(set, SubSeq(objs, 1, half))
       IN  IF Len(first) >= 0
           THEN SetAddAll(first, SubSeq(objs, half + 1, Len(objs)))
           ELSE first

\* forEach(track => set.add(track)) : the same loop without its size test
RECURSIVE SetAddWhileBelow_NoCap(_, _, _)
SetAddWhileBelow_NoCap(set, objs, cap) ==
  IF objs = <<>> THEN set
  ELSE IF Len(objs) = 1 THEN SetAdd(set, objs[1])
  ELSE LET half == Len(objs) \div 2
           first == SetAddWhileBelow_NoCap(set, SubSeq(objs, 1, half), cap)
       IN  IF Len(first) >= 0
           THEN SetAddWhileBelow_NoCap(first, SubSeq(objs, half + 1, Len(objs)), cap)
           ELSE first

\* forEach(track => { if (set.size < cap) set.add(track) })
RECURSIVE SetAddWhileBelow(_, _, _)
SetAddWhileBelow(set, objs, cap) ==
  IF objs = <<>> THEN set
  ELSE IF Len(objs) = 1 THEN (IF Len(set) < cap THEN SetAdd(set, objs[1]) ELSE set)
  ELSE LET half == Len(objs) \div 2
           first == SetAddWhileBelow(set, SubSeq(objs, 1, half), cap)
       IN  IF Len(first) >= 0
           THEN SetAddWhileBelow(first, SubSeq(objs, half + 1, Len(objs)), cap)
           ELSE first

\* playlistTracks is kept as the sequence of its entries [id, tracks] in
\* insertion order; Object.values(playlistTracks).flat() as objects.
PlaylistObjs(playlistTracks) ==
  Flat([k \in 1..Len(playlistTracks) |-> Objs("playlist", k, playlistTracks[k].tracks)])

priorityTracks(topTracks, recentTracks, likedTracks) ==
  LET afterTop == SetAddAll(<<>>, Objs("top", 0, topTracks))
      afterRecent == SetAddWhileBelow(afterTop, Objs("recent", 0, recentTracks),
                                      PriorityRecentCap)
  IN  SetAddWhileBelow(afterRecent,
                       Objs("liked", 0, Slice(likedTracks, 0, PriorityLikedSlice)),
                       PriorityLikedCap)

allTracks(topTracks, recentTracks, likedTracks, playlistTracks) ==
  SetAddAll(SetAddAll(SetAddAll(SetAddAll(<<>>,
    Objs("top", 0, topTracks)),
    Objs("recent", 0, recentTracks)),
    Objs("liked", 0, Slice(likedTracks, 0, PriorityLikedSlice))),
    PlaylistObjs(playlistTracks))

\* Array.from(allTracks)
uniqueTracks(topTracks, recentTracks, likedTracks, playlistTracks) ==
  LET all == allTracks(topTracks, recentTracks, likedTracks, playlistTracks)
  IN  [k \in 1..Len(all) |-> all[k].track]

\* Array.from(priorityTracks).map(track => track.id).filter(id => id)
priorityTrackIds(topTracks, recentTracks, likedTracks) ==
  LET prio == priorityTracks(topTracks, recentTracks, likedTracks)
      ids == [k \in 1..Len(prio) |-> prio[k].track.id]
  IN  SelectSeqBy(ids, Range(ids) \ {0})

\* userPlaylists.items.filter(owner.display_name !== 'Spotify').slice(0, 10)
PlaylistsToFetch(playlists) ==
  LET owned == {k \in 1..Len(playlists) : playlists[k].owner.display_name # SpotifyOwner}
      RECURSIVE Pick(_)
      Pick(k) == IF k > Len(playlists) THEN <<>>
                 ELSE IF k \in owned THEN <<playlists[k]>> \o Pick(k + 1)
                      ELSE Pick(k + 1)
  IN  Slice(Pick(1), 0, PlaylistFetchCap)

\* UserMusicProfile
UserMusicProfile(likedTracks, playlists, playlistTracks, recentTracks, audioFeatures, userTasteProfile) ==
  [likedTracks |-> likedTracks, playlists |-> playlists,
   playlistTracks |-> playlistTracks, recentTracks |-> recentTracks,
   audioFeatures |-> audioFeatures, userTasteProfile |-> userTasteProfile]

(***************************************************************************)
(* getLastFmRecommendations and getSearchBasedRecommendations: the         *)
(* synchronous parts.                                                      *)
(***************************************************************************)
SeedArtistCap == 5          \* preferredArtists.slice(0, 5)
SimilarArtistCap == 3       \* similarArtists.slice(0, 3)
FavoriteTrackCap == 3       \* likedTracks.slice(0, 3)
FallbackGenreCap == 3       \* preferredGenres.slice(0, 3)
DefaultLimit == 20          \* parseInt(req.query.limit) || 20

\* Math.round(x * 100)
RoundPercent(x) == (2 * 100 * x.num + x.den) \div (2 * x.den)

\* match || fallback: undefined and 0 are falsy
MatchOr(match, fallback) ==
  IF match.some /\ match.v # RZero THEN match.v ELSE fallback

\* LastFmArtist, LastFmTrack
LastFmArtist(name, match) == [name |-> name, match |-> match]
LastFmTrack(artistName, name, match) ==
  [name |-> name, artist |-> [name |-> artistName], match |-> match]

\* TrackRecommendation
TrackRecommendation(track, features, similarityScore, reasons, sourceType) ==
  [track |-> track, audioFeatures |-> features, similarityScore |-> similarityScore,
   reasons |-> reasons, sourceType |-> sourceType]

\* The key sets of lines 769-770.
UserTrackKeys(userProfile) ==
  {SpotifyTrackKey(t) : t \in Range(userProfile.likedTracks)}
    \cup {SpotifyTrackKey(t) : t \in Range(userProfile.recentTracks)}

\* track.artists.find(a => a.id === artistId) over a list of tracks
RECURSIVE FindArtistIn(_, _)
FindArtistIn(tracks, artistId) ==
  IF tracks = <<>> THEN Undefined
  ELSE LET hits == SelectSeqBy(Head(tracks).artists,
                               {a \in Range(Head(tracks).artists) : a.id = artistId})
       IN  IF hits # <<>> THEN Some(hits[1].name)
           ELSE FindArtistIn(Tail(tracks), artistId)

findArtistNameById(artistId, userProfile) ==
  LET inLiked == FindArtistIn(userProfile.likedTracks, artistId)
  IN  IF inLiked.some THEN inLiked
      ELSE FindArtistIn(userProfile.recentTracks, artistId)

\* The body of `for (const track of searchResults.tracks.items)` of the
\* artist phase (lines 788-833), folded over the items.  failing holds the
\* identifiers whose getTrackAudioFeatures call throws.  acc = [recs, seen].
RECURSIVE ArtistTracksLoop(_, _, _, _, _, _, _)
ArtistTracksLoop(acc, items, failing, artistName, lastFmArtist, taste, limit) ==
  IF items = <<>> THEN acc
  ELSE
    LET track == Head(items)
        trackKey == SpotifyTrackKey(track)
        features == IF track.id \in failing THEN NeutralFeatures(track.id)
                    ELSE CatalogFeatures(track.id)
        similarityScore == calculateAudioSimilarity(taste, features)
        reasons == <<[text |-> "Similar to artist", name |-> artistName,
                      pct |-> RoundPercent(MatchOr(lastFmArtist.match, RZero))],
                     [text |-> "Discovered via Last.fm recommendations"]>>
        rec == TrackRecommendation(track, features,
                 RMul(MatchOr(lastFmArtist.match, R(1, 2)), similarityScore),
                 reasons, "collaborative")
        pushed == [recs |-> Append(acc.recs, rec), seen |-> acc.seen \cup {trackKey}]
    IN  IF trackKey \in acc.seen
        THEN ArtistTracksLoop(acc, Tail(items), failing, artistName, lastFmArtist, taste, limit)
        ELSE IF Len(pushed.recs) >= limit THEN pushed
             ELSE ArtistTracksLoop(pushed, Tail(items), failing, artistName, lastFmArtist,
                                   taste, limit)

\* Lines 866-904: what a resolved exact search adds for one similar track.
TrackSearchPush(recs, items, failing, fav, lastFmTrack, taste) ==
  IF Len(items) > 0
  THEN LET spotifyTrack == items[1]
           features == IF spotifyTrack.id \in failing THEN NeutralFeatures(spotifyTrack.id)
                       ELSE CatalogFeatures(spotifyTrack.id)
           similarityScore == calculateAudioSimilarity(taste, features)
           reasons == <<[text |-> "Similar to track", name |-> fav.name,
                         artist |-> FirstArtistName(fav),
                         pct |-> RoundPercent(MatchOr(lastFmTrack.match, RZero))],
                        [text |-> "Track-based Last.fm recommendation"]>>
       IN  Append(recs, TrackRecommendation(spotifyTrack, features,
                          RMul(MatchOr(lastFmTrack.match, R(1, 2)), similarityScore),
                          reasons, "content-based"))
  ELSE recs

\* Lines 955-983: the inner loop of getSearchBasedRecommendations.
RECURSIVE GenreTracksLoop(_, _, _, _)
GenreTracksLoop(recs, items, genre, limit) ==
  IF items = <<>> \/ Len(recs) >= limit THEN recs
  ELSE GenreTracksLoop(
         Append(recs, TrackRecommendation(Head(items), MockFeatures(Head(items).id),
                        R(3, 4),
                        <<[text |-> "Based on your interest in", name |-> genre],
                          [text |-> "Genre-based discovery"]>>,
                        "content-based")),
         Tail(items), genre, limit)

\* The mock list of the route's catch block (lines 239-274).
MockTrack ==
  [id |-> -1, name |-> <<"m">>, artists |-> <<[id |-> -1, name |-> <<"M">>]>>,
   popularity |-> 75]
MockRecommendations ==
  <<TrackRecommendation(MockTrack, MockFeatures(-1), R(85, 100),
      <<[text |-> "Mock recommendation - Last.fm service unavailable"]>>,
      "content-based")>>

\* The taste profile the route starts from (lines 278-295).
RouteDefaultTasteProfile ==
  TasteProfile(R(7, 10), R(8, 10), R(6, 10), R(3, 10), R(1, 10), R(2, 10), R(1, 10),
               RInt(120),
               <<[genre |-> "pop", weight |-> 80], [genre |-> "indie", weight |-> 70]>>,
               <<[artistId |-> 1, weight |-> 85], [artistId |-> 2, weight |-> 75]>>)

\* The stats block of the response (lines 314-319).
RouteStats(formattedRecommendations) ==
  [totalRecommendations |-> Len(formattedRecommendations),
   contentBasedCount |-> Len(formattedRecommendations),
   collaborativeCount |-> 0,
   avgSimilarityScore |-> R(85, 100)]

\* parseInt(req.query.limit as string) || 20
ParseLimit(query) == IF query.some /\ query.v # 0 THEN query.v ELSE DefaultLimit

(***************************************************************************)
(* State.                                                                  *)
(***************************************************************************)
VARIABLES
  \* one evaluation of calculateAudioSimilarity
  simTaste,         \* the TasteProfile argument
  simTrack,         \* the AudioFeatures argument
  simResult,        \* the returned similarity
  simPc,            \* "idle" | "ready" | "done" | "explained"
  simPopularity,    \* the popularity of the track handed to generateReasons
  simReasons,       \* the list generateReasons returned
  \* one call of getSpotifyRecommendations
  seedArgs,         \* the arguments of the call
  seedParams,       \* the params object handed to makeRequest
  seedError,        \* the message of the Error thrown, "" if none
  seedPc,           \* "idle" | "called" | "requested" | "rejected" | "returned" | "failed"
  catalogRequests,  \* number of requests sent to the catalog by this call
  \* one call of buildUserMusicProfile
  srv,              \* what the catalog holds for the listener
  fetchState,       \* per raw-signal fetch: "pending" | "ok" | "failed"
  fetched,          \* per raw-signal fetch: the value its promise settled to
  playlistTracks,   \* the entries [id, tracks] set so far
  audioFeatures,    \* the feature map filled so far
  batchStart,       \* the loop variable i of the batch loop
  batchLog,         \* the getAudioFeatures calls made so far: [ids, ok]
  priorityIds,      \* the local priorityTrackIds, computed once before the loop
  profPc,           \* "idle" | "fanout" | "playlists" | "batches" | "done"
  profile,          \* the UserMusicProfile returned
  \* one GET /recommendations request
  env,              \* the request and the deployment: [authenticated, query, lastFmConfigured]
  recPc,            \* where the handler is waiting
  recLimit,         \* the parsed limit
  recProfile,       \* the userProfile handed to getLastFmRecommendations
  call,             \* the locals of getLastFmRecommendations / getSearchBasedRecommendations
  formattedRecommendations,  \* the route's list
  recResponse,      \* what res.json / res.status().json sent
  lastFm,           \* "unasked", "down" (every request so far gave nothing) or "answered"
  \* one POST /recommendations/custom request
  custReq,          \* [authenticated, body]
  custPc,           \* "idle" | "start" | "recommendations" | "features" | "responded"
  custParams,       \* the params getSpotifyRecommendations sent to the catalog
  custTracks,       \* recommendations.tracks
  custResponse,     \* what res.json / res.status().json sent
  \* two buildUserMusicProfile calls in flight on one service instance
  service,          \* the fields of the SpotifyService instance of the router
  reqs,             \* per call: its credential's listener and its locals
  \* one call of generateAdvancedRecommendations
  advArgs,          \* [userProfile, limit]
  advPc,            \* "idle" | "content" | "artists" | "returned" | "thrown"
  advRecommendations,  \* the local recommendations of generateAdvancedRecommendations
  advArtistsLeft,   \* the preferred artists getArtistBasedRecommendations has not asked for
  advArtistRecs,    \* the local recommendations of getArtistBasedRecommendations
  advResult,        \* the list returned
  \* one run of the final ordering of getLastFmRecommendations
  sortArgs,         \* [recommendations, limit]
  sortPc,           \* "idle" | "collected" | "returned"
  sortResult,       \* the list returned
  \* one call of getAllLikedTracks
  likedLibrary,     \* the listener's liked tracks as the catalog holds them
  likedPc,          \* "idle" | "called" | "waiting" | "returned" | "thrown"
  likedOffset,      \* the local offset
  likedAllTracks,   \* the local allTracks
  likedRequests,     \* the offsets of the page requests sent so far
  \* the requests of one getLastFmRecommendations call
  reqProfile,   \* the userProfile argument
  reqLimit,   \* the limit argument
  reqCall,   \* the call's position and locals
  reqLog,   \* the requests sent and the Last.fm lists received, in order
  \* the temporary tokens of routes/auth.ts
  tempTokens,   \* global.tempTokens: token string -> userData
  timers,   \* the pending clean-up timers, one per stored token
  stores,   \* the number of tokens stored so far
  authSession,   \* req.session of the client calling /exchange-token
  authLog,   \* what happened so far: tokens stored, timers fired, exchanges answered
  \* one call of a retrying ApiService method (frontend)
  apiMethod,   \* the method called
  apiPc,   \* "idle" | "fetch" | "refresh" | "returned" | "thrown"
  apiAccess,   \* localStorage spotify_access_token
  apiRefresh,   \* localStorage spotify_refresh_token
  apiFetches,   \* requests of the method's endpoint sent by this invocation
  apiRefreshes   \* refresh requests sent by this invocation

simVars == <<simTaste, simTrack, simResult, simPc, simPopularity, simReasons>>
seedVars == <<seedArgs, seedParams, seedError, seedPc, catalogRequests>>
profVars ==
  <<srv, fetchState, fetched, playlistTracks, audioFeatures, batchStart, batchLog,
    priorityIds, profPc, profile>>
recVars == <<env, recPc, recLimit, recProfile, call, formattedRecommendations, recResponse, lastFm>>
custVars == <<custReq, custPc, custParams, custTracks, custResponse>>
concVars == <<service, reqs>>
advVars == <<advArgs, advPc, advRecommendations, advArtistsLeft, advArtistRecs, advResult>>
sortVars == <<sortArgs, sortPc, sortResult>>
likedVars == <<likedLibrary, likedPc, likedOffset, likedAllTracks, likedRequests>>
reqVars == <<reqProfile, reqLimit, reqCall, reqLog>>
authVars == <<tempTokens, timers, stores, authSession, authLog>>
apiVars == <<apiMethod, apiPc, apiAccess, apiRefresh, apiFetches, apiRefreshes>>
extVars == <<advVars, sortVars, likedVars, reqVars, authVars, apiVars>>
vars == <<simVars, seedVars, profVars, recVars, custVars, concVars, extVars>>

SimIdle ==
  /\ simTaste = <<>> /\ simTrack = <<>> /\ simResult = RZero /\ simPc = "idle"
  /\ simPopularity = 0 /\ simReasons = <<>>
SeedIdle ==
  /\ seedArgs = <<>> /\ seedParams = <<>> /\ seedError = ""
  /\ seedPc = "idle" /\ catalogRequests = 0
NoCall == [pc |-> "none"]
NoResponse == [status |-> 0]
RecIdle ==
  /\ env = <<>> /\ recPc = "idle" /\ recLimit = 0 /\ recProfile = <<>> /\ call = NoCall
  /\ formattedRecommendations = <<>> /\ recResponse = NoResponse /\ lastFm = "unasked"
CustIdle ==
  /\ custReq = <<>> /\ custPc = "idle" /\ custParams = <<>> /\ custTracks = <<>>
  /\ custResponse = NoResponse
ConcIdle == service = <<>> /\ reqs = <<>>
AdvIdle ==
  /\ advArgs = <<>> /\ advPc = "idle" /\ advRecommendations = <<>>
  /\ advArtistsLeft = <<>> /\ advArtistRecs = <<>> /\ advResult = <<>>
SortIdle == sortArgs = <<>> /\ sortPc = "idle" /\ sortResult = <<>>
LikedIdle ==
  /\ likedLibrary = <<>> /\ likedPc = "idle" /\ likedOffset = 0
  /\ likedAllTracks = <<>> /\ likedRequests = <<>>
ReqIdle ==
  /\ reqProfile = <<>> /\ reqLimit = 0 /\ reqCall = [pc |-> "none"] /\ reqLog = <<>>
AuthIdle ==
  /\ tempTokens = <<>> /\ timers = {} /\ stores = 0 /\ authSession = <<>> /\ authLog = <<>>
ApiIdle ==
  /\ apiMethod = "" /\ apiPc = "idle" /\ apiAccess = "" /\ apiRefresh = ""
  /\ apiFetches = 0 /\ apiRefreshes = 0
ExtIdle ==
  /\ AdvIdle
  /\ SortIdle
  /\ LikedIdle
  /\ ReqIdle
  /\ AuthIdle
  /\ ApiIdle
ProfIdle ==
  /\ srv = <<>> /\ fetchState = <<>> /\ fetched = <<>> /\ playlistTracks = <<>>
  /\ audioFeatures = <<>> /\ batchStart = 0 /\ batchLog = <<>> /\ priorityIds = <<>>
  /\ profPc = "idle" /\ profile = <<>>

(***************************************************************************)
(* generateReasons.  A reason is its text and, where the code formats one, *)
(* the percentage in it.                                                   *)
(***************************************************************************)
ReasonThreshold == R(1, 5)
PopularAbove == 70
HiddenGemBelow == 30
FallbackReason == [text |-> "Based on your overall music taste"]

AttributeReason(userValue, trackValue, text) ==
  IF RLt(RAbs(RSub(userValue, trackValue)), ReasonThreshold)
  THEN <<[text |-> text, pct |-> RoundPercent(trackValue)]>> ELSE <<>>

PopularityReason(track) ==
  IF track.popularity > PopularAbove THEN <<[text |-> "Popular track you might have missed"]>>
  ELSE IF track.popularity < HiddenGemBelow THEN <<[text |-> "Hidden gem discovery"]>>
  ELSE <<>>

\* generateReasons without its generic fallback.
generateReasons_NoFallback(userTaste, trackFeatures, track) ==
  AttributeReason(userTaste.avgEnergy, trackFeatures.energy, "Matches your energy level")
    \o AttributeReason(userTaste.avgDanceability, trackFeatures.danceability,
                       "Perfect danceability for you")
    \o AttributeReason(userTaste.avgValence, trackFeatures.valence,
                       "Matches your mood preferences")
    \o PopularityReason(track)

generateReasons(userTaste, trackFeatures, track) ==
  LET reasons ==
        AttributeReason(userTaste.avgEnergy, trackFeatures.energy, "Matches your energy level")
          \o AttributeReason(userTaste.avgDanceability, trackFeatures.danceability,
                             "Perfect danceability for you")
          \o AttributeReason(userTaste.avgValence, trackFeatures.valence,
                             "Matches your mood preferences")
          \o PopularityReason(track)
  IN  IF Len(reasons) = 0 THEN <<FallbackReason>> ELSE reasons

(***************************************************************************)
(* SpecSim: calculateAudioSimilarity and generateReasons applied to        *)
(* bounded inputs.                                                         *)
(***************************************************************************)
PopularityInputs == {20, 30, 70, 80}

UnitValues == {RZero, ROne}
MinorValues == {R(1, 5)}
UserTempoValues == {R(3, 5), RInt(120)}
TrackTempoValues == {RInt(60), RInt(120), RInt(200)}

SimTasteInputs ==
  {TasteProfile(d, e, v, a, i, l, s, t, <<>>, <<>>) :
     d \in UnitValues, e \in UnitValues, v \in UnitValues, a \in UnitValues,
     i \in UnitValues, l \in MinorValues, s \in MinorValues,
     t \in UserTempoValues}

SimTrackInputs ==
  {Features(1, d, e, v, a, i, l, s, t) :
     d \in UnitValues, e \in UnitValues, v \in UnitValues, a \in UnitValues,
     i \in UnitValues, l \in MinorValues, s \in MinorValues,
     t \in TrackTempoValues}

SimInit ==
  /\ simTaste \in SimTasteInputs
  /\ simTrack \in SimTrackInputs
  /\ simResult = RZero
  /\ simPc = "ready"
  /\ simPopularity \in PopularityInputs
  /\ simReasons = <<>>
  /\ SeedIdle
  /\ ProfIdle
  /\ RecIdle
  /\ CustIdle
  /\ ConcIdle
  /\ ExtIdle

CalculateAudioSimilarity ==
  /\ simPc = "ready"
  /\ simResult' = calculateAudioSimilarity(simTaste, simTrack)
  /\ simPc' = "done"
  /\ UNCHANGED <<simTaste, simTrack, simPopularity, simReasons,
                 seedVars, profVars, recVars, custVars, concVars, extVars>>

\* Then one call of generateReasons for a track with the drawn vector and
\* popularity, as getContentBasedRecommendations makes them (lines 1234-1236).
GenerateReasons ==
  /\ simPc = "done"
  /\ simPc' = "explained"
  /\ simReasons' = generateReasons(simTaste, simTrack,
                                   [Track(1) EXCEPT !.popularity = simPopularity])
  /\ UNCHANGED <<simTaste, simTrack, simResult, simPopularity,
                 seedVars, profVars, recVars, custVars, concVars, extVars>>

SimNext == CalculateAudioSimilarity \/ GenerateReasons

SpecSim == SimInit /\ [][SimNext]_vars

\* The ranges the data model gives: the seven non-tempo attributes in
\* [0,1], tempo positive.
NonTempoNames == SubSeq(FeatureNames, 1, 7)
TasteInRange(p) ==
  /\ \A k \in 1..7 : RInUnit(p[AvgKey(NonTempoNames[k])])
  /\ RLt(RZero, p.avgTempo)
FeaturesInRange(f) ==
  /\ \A k \in 1..7 : RInUnit(f[NonTempoNames[k]])
  /\ RLt(RZero, f.tempo)

\* C6: for every taste profile and feature vector in range (non-tempo
\* attributes in [0,1], tempo positive), the similarity computed by
\* calculateAudioSimilarity lies in [0,1].
C6_SimilarityInUnitInterval ==
  (simPc = "done" /\ TasteInRange(simTaste) /\ FeaturesInRange(simTrack))
    => RInUnit(simResult)

(***************************************************************************)
(* getSpotifyRecommendations                                               *)
(*                                                                         *)
(* The params object is a function from the keys that were set to their    *)
(* values.  A seed list joined with ',' is kept as the list itself.        *)
(***************************************************************************)
SeedErrorMessage ==
  "Spotify recommendations API requires at least one seed (track, artist, or genre)"

RecommendationsApiMaxLimit == 100
MaxTotalSeeds == 5

\* The first three blocks: seed_tracks, then seed_artists, then seed_genres,
\* each cut to what is left of the five seeds.
SeedTracksPart(seedTracks) ==
  IF OptLength(seedTracks) # 0
  THEN Slice(seedTracks.v, 0, MaxTotalSeeds) ELSE <<>>

SeedArtistsPart(seedArtists, totalSeeds) ==
  IF OptLength(seedArtists) # 0 /\ totalSeeds < MaxTotalSeeds
  THEN Slice(seedArtists.v, 0, MaxTotalSeeds - totalSeeds) ELSE <<>>

\* SeedGenresPart cut to five genres whatever the seeds already taken.
SeedGenresPart_Uncapped(seedGenres, totalSeeds) ==
  IF OptLength(seedGenres) # 0
  THEN Slice(seedGenres.v, 0, MaxTotalSeeds) ELSE <<>>

SeedGenresPart(seedGenres, totalSeeds) ==
  IF OptLength(seedGenres) # 0 /\ totalSeeds < MaxTotalSeeds
  THEN Slice(seedGenres.v, 0, MaxTotalSeeds - totalSeeds) ELSE <<>>

\* TargetAccepted without the range check.
TargetAccepted_NoRangeCheck(key, value) ==
  value # Null

\* The validation of one entry of audioFeatureTargets: TRUE iff the entry
\* is copied to params as target_<key>.
TargetAccepted(key, value) ==
  /\ value # Null
  /\ ~(key # "tempo" /\ value.kind = "number"
        /\ (RLt(value.v, RZero) \/ RLt(ROne, value.v)))

\* `target_${key}`
TargetName(key) ==
  CASE key = "danceability" -> "target_danceability"
    [] key = "energy" -> "target_energy"
    [] key = "valence" -> "target_valence"
    [] key = "acousticness" -> "target_acousticness"
    [] key = "instrumentalness" -> "target_instrumentalness"
    [] key = "liveness" -> "target_liveness"
    [] key = "speechiness" -> "target_speechiness"
    [] key = "tempo" -> "target_tempo"

TargetParams(audioFeatureTargets) ==
  IF audioFeatureTargets.some
  THEN LET t == audioFeatureTargets.v
           keys == {k \in DOMAIN t : TargetAccepted(k, t[k])}
       IN  [p \in {TargetName(k) : k \in keys} |->
              t[CHOOSE k \in keys : TargetName(k) = p]]
  ELSE <<>>

\* params.<name> = part.join(','), set only inside its if-block
SeedParam(name, part) == IF part = <<>> THEN <<>> ELSE (name :> part)

RecommendationParams(tracksPart, artistsPart, genresPart, audioFeatureTargets, limit) ==
  ("limit" :> Min(limit, RecommendationsApiMaxLimit))
    @@ SeedParam("seed_tracks", tracksPart)
    @@ SeedParam("seed_artists", artistsPart)
    @@ SeedParam("seed_genres", genresPart)
    @@ TargetParams(audioFeatureTargets)

\* getSpotifyRecommendations without its zero-seed check.
getSpotifyRecommendations_NoSeedCheck(seedTracks, seedArtists, seedGenres, audioFeatureTargets, limit) ==
  LET tracksPart == SeedTracksPart(seedTracks)
      artistsPart == SeedArtistsPart(seedArtists, Len(tracksPart))
      genresPart == SeedGenresPart(seedGenres, Len(tracksPart) + Len(artistsPart))
  IN  [thrown |-> FALSE, message |-> "",
       params |-> RecommendationParams(tracksPart, artistsPart, genresPart,
                                       audioFeatureTargets, limit)]

\* The outcome of the synchronous part of getSpotifyRecommendations:
\* either an Error is thrown, or params is handed to makeRequest.
getSpotifyRecommendations(seedTracks, seedArtists, seedGenres, audioFeatureTargets, limit) ==
  LET tracksPart == SeedTracksPart(seedTracks)
      artistsPart == SeedArtistsPart(seedArtists, Len(tracksPart))
      genresPart == SeedGenresPart(seedGenres, Len(tracksPart) + Len(artistsPart))
      totalSeeds == Len(tracksPart) + Len(artistsPart) + Len(genresPart)
  IN  IF totalSeeds = 0
      THEN [thrown |-> TRUE, message |-> SeedErrorMessage, params |-> <<>>]
      ELSE [thrown |-> FALSE, message |-> "",
            params |-> RecommendationParams(tracksPart, artistsPart, genresPart,
                                            audioFeatureTargets, limit)]

(***************************************************************************)
(* SpecSeed: one call of getSpotifyRecommendations on bounded arguments.   *)
(***************************************************************************)
SeedListInputs ==
  {Undefined} \cup {Some([i \in 1..n |-> i]) : n \in 0..MaxSeeds}

TargetKeys == {"danceability", "energy", "tempo"}
TargetValues == {Null, Num(R(1, 2)), Num(ROne), Num(RInt(2)), Num(R(-1, 2))}
TargetInputs ==
  {Undefined} \cup
  UNION {{Some(t) : t \in [keys -> TargetValues]} : keys \in SUBSET TargetKeys}

SeedLimitInputs == {20, 1000}

SeedInit ==
  /\ seedArgs \in [seedTracks : SeedListInputs, seedArtists : SeedListInputs,
                   seedGenres : SeedListInputs,
                   audioFeatureTargets : TargetInputs, limit : SeedLimitInputs]
  /\ seedParams = <<>>
  /\ seedError = ""
  /\ seedPc = "called"
  /\ catalogRequests = 0
  /\ SimIdle
  /\ ProfIdle
  /\ RecIdle
  /\ CustIdle
  /\ ConcIdle
  /\ ExtIdle

\* The call up to its await: validation, then either the throw or the
\* request to /recommendations.
GetSpotifyRecommendations ==
  /\ seedPc = "called"
  /\ LET r == getSpotifyRecommendations(seedArgs.seedTracks, seedArgs.seedArtists,
                                        seedArgs.seedGenres,
                                        seedArgs.audioFeatureTargets, seedArgs.limit)
     IN  IF r.thrown
         THEN /\ seedPc' = "rejected"
              /\ seedError' = r.message
              /\ UNCHANGED <<seedParams, catalogRequests>>
         ELSE /\ seedPc' = "requested"
              /\ seedParams' = r.params
              /\ catalogRequests' = catalogRequests + 1
              /\ UNCHANGED seedError
  /\ UNCHANGED <<seedArgs, simVars, profVars, recVars, custVars, concVars, extVars>>

\* makeRequest resolves with the catalog's answer.
SeedRequestResolves ==
  /\ seedPc = "requested"
  /\ seedPc' = "returned"
  /\ UNCHANGED <<seedArgs, seedParams, seedError, catalogRequests, simVars, profVars, recVars, custVars, concVars, extVars>>

\* makeRequest rethrows the transport error.
SeedRequestFails ==
  /\ seedPc = "requested"
  /\ seedPc' = "failed"
  /\ seedError' = "transport"
  /\ UNCHANGED <<seedArgs, seedParams, catalogRequests, simVars, profVars, recVars, custVars, concVars, extVars>>

SeedNext == GetSpotifyRecommendations \/ SeedRequestResolves \/ SeedRequestFails

SpecSeed == SeedInit /\ [][SeedNext]_vars

ZeroSeeds(args) ==
  /\ OptLength(args.seedTracks) = 0
  /\ OptLength(args.seedArtists) = 0
  /\ OptLength(args.seedGenres) = 0

\* C10: a call with zero seed tracks, zero seed artists and zero seed genres
\* is rejected with the 'requires at least one seed' failure, and no request
\* is ever sent to the catalog for it.
C10_ZeroSeedsRejectedBeforeRequest ==
  (seedPc \notin {"idle", "called"} /\ ZeroSeeds(seedArgs))
    => /\ seedPc = "rejected"
       /\ seedError = SeedErrorMessage
       /\ catalogRequests = 0
       /\ seedParams = <<>>

\* a zero-seed call that has been rejected
C10_Witness ==
  /\ seedPc = "rejected"
  /\ ZeroSeeds(seedArgs)
  /\ seedArgs.seedGenres = Some(<<>>)

SeedKeys == {"seed_tracks", "seed_artists", "seed_genres"}
SeedsSent(params) ==
  LET n(key) == IF key \in DOMAIN params THEN Len(params[key]) ELSE 0
  IN  n("seed_tracks") + n("seed_artists") + n("seed_genres")
RequestSent == seedPc \in {"requested", "returned", "failed"}

\* C11: whatever the lengths of the three seed lists, every request sent to
\* the catalog carries between 1 and 5 seeds in total, each seed parameter
\* a prefix of the list it was given.
C11_SeedsBetweenOneAndFive ==
  RequestSent =>
    /\ SeedsSent(seedParams) >= 1
    /\ SeedsSent(seedParams) <= 5
    /\ \A key \in SeedKeys \cap DOMAIN seedParams : seedParams[key] # <<>>

\* a request sent for a call given more than five seeds in every category
C11_Witness ==
  /\ seedPc = "requested"
  /\ OptLength(seedArgs.seedTracks) = 3
  /\ OptLength(seedArgs.seedArtists) > MaxTotalSeeds
  /\ OptLength(seedArgs.seedGenres) > MaxTotalSeeds
  /\ SeedsSent(seedParams) = MaxTotalSeeds

InUnitRange(value) == value.kind = "number" /\ RInUnit(value.v)
OutOfUnitRange(value) == value.kind = "number" /\ ~RInUnit(value.v)

\* C12: of the feature targets of a request, each non-tempo target outside
\* [0,1] is left out of the request sent to the catalog, and every target in
\* [0,1] of the same request is sent as target_<key> with its value unchanged.
C12_OutOfRangeTargetsDropped ==
  (RequestSent /\ seedArgs.audioFeatureTargets.some) =>
    LET t == seedArgs.audioFeatureTargets.v
    IN  \A key \in DOMAIN t :
          /\ (key # "tempo" /\ OutOfUnitRange(t[key]))
               => TargetName(key) \notin DOMAIN seedParams
          /\ InUnitRange(t[key])
               => /\ TargetName(key) \in DOMAIN seedParams
                  /\ seedParams[TargetName(key)] = t[key]

\* a request sent with danceability 2 dropped and energy 1/2 kept
C12_Witness ==
  /\ seedPc = "requested"
  /\ seedArgs.audioFeatureTargets.some
  /\ seedArgs.audioFeatureTargets.v =
       ("danceability" :> Num(RInt(2))) @@ ("energy" :> Num(R(1, 2)))
  /\ DOMAIN seedParams \cap {"target_danceability", "target_energy"} = {"target_energy"}

(***************************************************************************)
(* SpecProfile: one call of buildUserMusicProfile, one action per await.   *)
(* The code that runs between two awaits belongs to the action of the      *)
(* first.                                                                  *)
(***************************************************************************)
Signals == {"liked", "playlists", "recent", "top", "topArtists"}

\* SpotifyPlaylist
Playlist(id, owner) == [id |-> id, owner |-> [display_name |-> owner]]

\* The items the catalog returns for a playlist; an item's track can be null.
PlaylistItems(id) ==
  <<Some(Track(((id + 1) % NTracks) + 1)), Undefined, Some(Track(1))>>

\* tracks.items.map(item => item.track).filter(track => track)
PlaylistItemTracks(items) ==
  LET kept == SelectSeqBy(items, Range(items) \ {Undefined})
  IN  [k \in 1..Len(kept) |-> kept[k].v]

TrackList(ids) == [k \in 1..Len(ids) |-> Track(ids[k])]

LikedWorlds == {<<>>, TrackList(<<1, 2, 3>>)}
RecentWorlds == {<<>>, TrackList(<<2>>)}
TopWorlds == {<<>>, TrackList(<<1, NTracks>>)}
TopArtistWorlds ==
  {<<>>,
   <<Artist(1, <<"pop">>, 80)>>,
   <<Artist(1, <<"pop", "rock">>, 60), Artist(NArtists, <<"rock">>, 70)>>}
PlaylistWorlds ==
  {<<>>,
   <<Playlist(1, "me")>>,
   <<Playlist(2, SpotifyOwner), Playlist(1, "me")>>}
FeatureWorlds == {{}, {1}, TrackIds}

Worlds ==
  [liked : LikedWorlds, playlists : PlaylistWorlds, recent : RecentWorlds,
   top : TopWorlds, topArtists : TopArtistWorlds, features : FeatureWorlds]

NoProfile == <<>>

ProfInit ==
  /\ srv \in Worlds
  /\ fetchState = [sig \in Signals |-> "pending"]
  /\ fetched = [sig \in Signals |-> <<>>]
  /\ playlistTracks = <<>>
  /\ audioFeatures = <<>>
  /\ batchStart = 0
  /\ batchLog = <<>>
  /\ priorityIds = <<>>
  /\ profPc = "fanout"
  /\ profile = NoProfile
  /\ SimIdle
  /\ SeedIdle
  /\ RecIdle
  /\ CustIdle
  /\ ConcIdle
  /\ ExtIdle

\* lines 1088-1099: the taste profile and the returned object
FinishProfile(val, plTracks, feats) ==
  [pc |-> "done", playlistTracks |-> plTracks, audioFeatures |-> feats,
   batchStart |-> batchStart,
   profile |-> UserMusicProfile(val.liked, val.playlists, plTracks, val.recent, feats,
                 calculateTasteProfile(
                   uniqueTracks(val.top, val.recent, val.liked, plTracks),
                   feats, val.topArtists))]

\* lines 1036-1072: the track selection, up to the first batch request
AfterPlaylists(val, plTracks) ==
  LET ids == priorityTrackIds(val.top, val.recent, val.liked)
  IN  IF 0 < Len(ids)
      THEN [pc |-> "batches", playlistTracks |-> plTracks, audioFeatures |-> <<>>,
            batchStart |-> 0, profile |-> NoProfile, priorityIds |-> ids]
      ELSE FinishProfile(val, plTracks, <<>>)

\* lines 1021-1026: after Promise.all, up to the first playlist request
AfterFanout(val) ==
  IF PlaylistsToFetch(val.playlists) # <<>>
  THEN [pc |-> "playlists", playlistTracks |-> <<>>, audioFeatures |-> <<>>,
        batchStart |-> 0, profile |-> NoProfile]
  ELSE AfterPlaylists(val, <<>>)

ProfGoto(next) ==
  /\ profPc' = next.pc
  /\ playlistTracks' = next.playlistTracks
  /\ audioFeatures' = next.audioFeatures
  /\ batchStart' = next.batchStart
  /\ profile' = next.profile
  /\ priorityIds' = IF "priorityIds" \in DOMAIN next THEN next.priorityIds ELSE priorityIds

\* One of the five promises of Promise.all settles; value is what its
\* .catch wrapper resolves to.  When it is the last one, the function runs
\* on to its next await.
FetchSettles(sig, state, value) ==
  /\ LET st == [fetchState EXCEPT ![sig] = state]
         val == [fetched EXCEPT ![sig] = value]
     IN  /\ fetchState' = st
         /\ fetched' = val
         /\ IF \A x \in Signals : st[x] # "pending"
            THEN ProfGoto(AfterFanout(val))
            ELSE UNCHANGED <<profPc, playlistTracks, audioFeatures, batchStart, profile,
                             priorityIds>>
  /\ UNCHANGED <<srv, batchLog, simVars, seedVars, recVars, custVars, concVars, extVars>>

\* the fetch returns the catalog's data
FetchResolves(sig) ==
  /\ profPc = "fanout"
  /\ fetchState[sig] = "pending"
  /\ FetchSettles(sig, "ok", srv[sig])

\* A fetch without its .catch wrapper: Promise.all rejects and the call
\* throws.
FetchFails_Rejects(sig) ==
  /\ profPc = "fanout"
  /\ fetchState[sig] = "pending"
  /\ fetchState' = [fetchState EXCEPT ![sig] = "failed"]
  /\ profPc' = "thrown"
  /\ UNCHANGED <<srv, batchLog, priorityIds, fetched, playlistTracks, audioFeatures,
                 batchStart, profile,
                 simVars, seedVars, recVars, custVars, concVars, extVars>>

\* the fetch throws; its .catch returns the empty value
FetchFails(sig) ==
  /\ profPc = "fanout"
  /\ fetchState[sig] = "pending"
  /\ FetchSettles(sig, "failed", <<>>)

\* The playlist loop (lines 1026-1034): one getPlaylistTracks call settles.
PlaylistSettles(ok) ==
  /\ LET todo == PlaylistsToFetch(fetched.playlists)
         playlist == todo[Len(playlistTracks) + 1]
         tracks == IF ok THEN PlaylistItemTracks(PlaylistItems(playlist.id)) ELSE <<>>
         plTracks == Append(playlistTracks, [id |-> playlist.id, tracks |-> tracks])
     IN  IF Len(plTracks) < Len(todo)
         THEN /\ playlistTracks' = plTracks
              /\ UNCHANGED <<profPc, audioFeatures, batchStart, profile, priorityIds>>
         ELSE ProfGoto(AfterPlaylists(fetched, plTracks))
  /\ UNCHANGED <<srv, batchLog, fetchState, fetched, simVars, seedVars, recVars, custVars, concVars, extVars>>

\* getPlaylistTracks returns the playlist's items
PlaylistTracksResolve ==
  /\ profPc = "playlists"
  /\ PlaylistSettles(TRUE)

\* getPlaylistTracks throws; the catch block stores []
PlaylistTracksFail ==
  /\ profPc = "playlists"
  /\ PlaylistSettles(FALSE)

\* getAudioFeatures: the ids are cut to 100, the nulls of the answer dropped.
getAudioFeatures(trackIds, available) ==
  LET asked == Slice(trackIds, 0, AudioFeaturesApiMax)
      found == SelectSeqBy(asked, available)
  IN  [k \in 1..Len(found) |-> CatalogFeatures(found[k])]

\* featuresResponse.forEach(features => audioFeatures[features.id] = features)
RECURSIVE StoreFeatures(_, _)
StoreFeatures(map, response) ==
  IF response = <<>> THEN map
  ELSE StoreFeatures(
         IF Head(response).id # 0
         THEN [id \in (DOMAIN map) \cup {Head(response).id} |->
                 IF id = Head(response).id THEN Head(response) ELSE map[id]]
         ELSE map,
         Tail(response))

\* The batch loop (lines 1072-1086): one getAudioFeatures call settles.
BatchSettles(ok) ==
  /\ LET ids == priorityIds
         batch == Slice(ids, batchStart, batchStart + batchSize)
         feats == IF ok
                  THEN StoreFeatures(audioFeatures, getAudioFeatures(batch, srv.features))
                  ELSE audioFeatures
     IN  /\ batchLog' = Append(batchLog, [ids |-> batch, ok |-> ok])
         /\ IF batchStart + batchSize < Len(ids)
            THEN /\ audioFeatures' = feats
                 /\ batchStart' = batchStart + batchSize
                 /\ UNCHANGED <<profPc, playlistTracks, profile, priorityIds>>
            ELSE ProfGoto([FinishProfile(fetched, playlistTracks, feats)
                             EXCEPT !.batchStart = batchStart + batchSize])
  /\ UNCHANGED <<srv, fetchState, fetched, simVars, seedVars, recVars, custVars, concVars, extVars>>

\* getAudioFeatures returns the vectors of the batch
BatchResolves ==
  /\ profPc = "batches"
  /\ BatchSettles(TRUE)

\* getAudioFeatures throws and the catch block leaves the loop (break): the
\* profile is finished with the vectors collected so far.
BatchFails_Breaks ==
  /\ profPc = "batches"
  /\ LET ids == priorityIds
         batch == Slice(ids, batchStart, batchStart + batchSize)
     IN  /\ batchLog' = Append(batchLog, [ids |-> batch, ok |-> FALSE])
         /\ ProfGoto([FinishProfile(fetched, playlistTracks, audioFeatures)
                        EXCEPT !.batchStart = batchStart + batchSize])
  /\ UNCHANGED <<srv, fetchState, fetched, simVars, seedVars, recVars, custVars, concVars, extVars>>

\* getAudioFeatures throws; the catch block goes on to the next batch
BatchFails ==
  /\ profPc = "batches"
  /\ BatchSettles(FALSE)

ProfNext ==
  \/ \E sig \in Signals : FetchResolves(sig)
  \/ \E sig \in Signals : FetchFails(sig)
  \/ PlaylistTracksResolve
  \/ PlaylistTracksFail
  \/ BatchResolves
  \/ BatchFails

SpecProfile == ProfInit /\ [][ProfNext]_vars

(***************************************************************************)
(* SpecLibrary: the same call for listeners whose libraries are larger     *)
(* than the caps of the priority subset and than one batch.                *)
(***************************************************************************)
\* n catalog tracks with the ids first + 1 .. first + n
ManyTracks(first, n) == [k \in 1..n |-> Track(first + k)]

\* The catalog has a vector for every tenth track.
LibraryFeatures == {t \in 1000..4000 : t % 10 = 1}

LibraryWorld(top, recent, liked) ==
  [liked |-> ManyTracks(3000, liked), playlists |-> <<Playlist(1, "me")>>,
   recent |-> ManyTracks(2000, recent), top |-> ManyTracks(1000, top),
   topArtists |-> <<Artist(1, <<"pop">>, 80)>>, features |-> LibraryFeatures]

\* One listener whose top tracks alone pass the first cap and whose liked
\* tracks pass the slice and the second cap; one whose top tracks stop just
\* below the first cap.
LibraryWorlds ==
  {LibraryWorld(PriorityRecentCap + 1, 3, PriorityLikedSlice + 1),
   LibraryWorld(PriorityRecentCap - 1, 3, 2)}

LibraryInit ==
  /\ srv \in LibraryWorlds
  /\ fetchState = [sig \in Signals |-> "pending"]
  /\ fetched = [sig \in Signals |-> <<>>]
  /\ playlistTracks = <<>>
  /\ audioFeatures = <<>>
  /\ batchStart = 0
  /\ batchLog = <<>>
  /\ priorityIds = <<>>
  /\ profPc = "fanout"
  /\ profile = NoProfile
  /\ SimIdle
  /\ SeedIdle
  /\ RecIdle
  /\ CustIdle
  /\ ConcIdle
  /\ ExtIdle

SpecLibrary == LibraryInit /\ [][ProfNext]_vars

\* The priority subset as the documentation describes it: the top tracks,
\* then the recent tracks that fit below the first cap, then those of the
\* first liked tracks that fit below the second cap.
DescribedPriority(val) ==
  LET top == Objs("top", 0, val.top)
      recent == Objs("recent", 0, val.recent)
      liked == Objs("liked", 0, val.liked)
      recentKept == SubSeq(recent, 1, Min(Len(recent), Max(0, PriorityRecentCap - Len(top))))
      afterRecent == Len(top) + Len(recentKept)
      likedKept == SubSeq(liked, 1, Min(Min(Len(liked), PriorityLikedSlice),
                                        Max(0, PriorityLikedCap - afterRecent)))
  IN  top \o recentKept \o likedKept

DescribedPriorityIds(val) ==
  LET prio == DescribedPriority(val)
  IN  [k \in 1..Len(prio) |-> prio[k].track.id]

\* the identifiers of the calls made so far, in call order
LoggedIds == Flat([k \in 1..Len(batchLog) |-> batchLog[k].ids])

\* C19: the priority subset holds all top tracks, then the recent tracks
\* added only while it holds fewer than 200 entries, then those of the first
\* 300 liked tracks added only while it holds fewer than 500 entries; the
\* playlist tracks are in the full track universe and never in the priority
\* subset.  The identifiers handed to the batch loop, and the identifiers
\* the finished loop has asked for, are those of that subset.
C19_PrioritySubsetBuiltInOrder ==
  /\ (profPc = "batches" /\ batchLog = <<>>) =>
        LET prio == priorityTracks(fetched.top, fetched.recent, fetched.liked)
            all == allTracks(fetched.top, fetched.recent, fetched.liked, playlistTracks)
        IN  /\ prio = DescribedPriority(fetched)
            /\ \A k \in 1..Len(prio) : prio[k].ref.src # "playlist"
            /\ Range(PlaylistObjs(playlistTracks)) \subseteq Range(all)
            /\ Range(prio) \subseteq Range(all)
  /\ profPc = "batches" => priorityIds = DescribedPriorityIds(fetched)
  /\ profPc = "done" => LoggedIds = DescribedPriorityIds(fetched)

C19_Witness ==
  /\ profPc = "done"
  /\ Len(fetched.top) > PriorityRecentCap
  /\ fetched.recent # <<>>
  /\ Len(fetched.liked) > PriorityLikedSlice
  /\ Len(LoggedIds) = PriorityLikedCap
  /\ \E k \in 1..Len(playlistTracks) : playlistTracks[k].tracks # <<>>

\* the number of batches a list of n identifiers is cut into
BatchCount(n) == (n + batchSize - 1) \div batchSize

\* C20: the vectors of the priority subset are asked for in batches of at
\* most 100 identifiers; a failed batch does not stop the loop: every later
\* batch is still asked for, the vectors of every successful batch are in
\* the resulting feature map, and the call still returns a profile.
C20_FailedBatchSkipped ==
  /\ \A k \in 1..Len(batchLog) :
        /\ Len(batchLog[k].ids) \in 1..batchSize
        /\ batchLog[k].ids =
             Slice(DescribedPriorityIds(fetched), (k - 1) * batchSize, k * batchSize)
  /\ batchLog # <<>> => profPc \in {"batches", "done"}
  /\ profPc = "batches" => Len(batchLog) < BatchCount(Len(priorityIds))
  /\ profPc = "done" =>
        /\ Len(batchLog) = BatchCount(Len(DescribedPriorityIds(fetched)))
        /\ profile # NoProfile
        /\ \A k \in 1..Len(batchLog) :
              batchLog[k].ok =>
                \A id \in Range(batchLog[k].ids) \cap srv.features :
                  /\ id \in DOMAIN profile.audioFeatures
                  /\ profile.audioFeatures[id] = CatalogFeatures(id)

C20_Witness ==
  /\ profPc = "done"
  /\ Len(batchLog) > 2
  /\ ~batchLog[1].ok
  /\ batchLog[2].ok
  /\ ~batchLog[3].ok
  /\ profile # NoProfile
  /\ Range(batchLog[2].ids) \cap DOMAIN profile.audioFeatures # {}

\* C7: whichever of the five raw-signal fetches fail, the call does not
\* abort; each failed signal is empty, each successful signal holds the data
\* its fetch returned, and the returned profile carries exactly these values.
C7_FetchFailuresIsolated ==
  /\ profPc \in {"idle", "fanout", "playlists", "batches", "done"}
  /\ profPc # "idle" =>
       /\ (\A sig \in Signals : fetchState[sig] # "pending") => profPc # "fanout"
       /\ \A sig \in Signals :
            /\ fetchState[sig] = "failed" => fetched[sig] = <<>>
            /\ fetchState[sig] = "ok" => fetched[sig] = srv[sig]
       /\ profPc = "done" =>
            /\ profile # NoProfile
            /\ profile.likedTracks = fetched.liked
            /\ profile.playlists = fetched.playlists
            /\ profile.recentTracks = fetched.recent
            /\ profile.userTasteProfile.preferredArtists = ArtistEntries(fetched.topArtists)
            /\ \A k \in 1..Len(fetched.top) :
                 \E j \in 1..Len(uniqueTracks(fetched.top, fetched.recent, fetched.liked, playlistTracks)) :
                   uniqueTracks(fetched.top, fetched.recent, fetched.liked, playlistTracks)[j] = fetched.top[k]

\* a returned profile after the liked-track fetch failed on a non-empty
\* library while the recent-play and top-artist fetches succeeded
C7_Witness ==
  /\ profPc = "done"
  /\ fetchState.liked = "failed" /\ srv.liked # <<>> /\ profile.likedTracks = <<>>
  /\ fetchState.recent = "ok" /\ profile.recentTracks # <<>>
  /\ fetchState.topArtists = "ok" /\ profile.userTasteProfile.preferredArtists # <<>>
  /\ fetchState.top = "failed"

NoResolvedVector ==
  \A track \in Range(uniqueTracks(fetched.top, fetched.recent, fetched.liked, playlistTracks)) :
    track.id \notin DOMAIN profile.audioFeatures

\* C8: when no track of the universe has a resolved feature vector, the
\* returned taste profile is the neutral default (0.5, 0.5, 0.5, 0.5, 0.1,
\* 0.2, 0.1, tempo 120) with preferredGenres and preferredArtists taken from
\* the top artists; top artists [{genres:[pop], popularity:80}] give
\* preferredGenres = [{pop, 80}].
C8_NeutralDefaultProfile ==
  (profPc = "done" /\ NoResolvedVector) =>
    LET tp == profile.userTasteProfile
        top == fetched.topArtists
    IN  /\ tp.avgDanceability = R(1, 2) /\ tp.avgEnergy = R(1, 2)
        /\ tp.avgValence = R(1, 2) /\ tp.avgAcousticness = R(1, 2)
        /\ tp.avgInstrumentalness = R(1, 10) /\ tp.avgLiveness = R(1, 5)
        /\ tp.avgSpeechiness = R(1, 10) /\ tp.avgTempo = RInt(120)
        /\ \A e \in Range(tp.preferredGenres) :
             \E k \in 1..Len(top) :
               e.genre \in Range(top[k].genres) /\ e.weight = top[k].popularity
        /\ Len(Flat([k \in 1..Len(top) |-> top[k].genres])) <= MaxPreferredGenres =>
             \A k \in 1..Len(top) : \A g \in Range(top[k].genres) :
               [genre |-> g, weight |-> top[k].popularity] \in Range(tp.preferredGenres)
        /\ Len(tp.preferredArtists) = Min(Len(top), MaxPreferredArtists)
        /\ \A k \in 1..Len(tp.preferredArtists) :
             tp.preferredArtists[k] = [artistId |-> top[k].id, weight |-> top[k].popularity]
        /\ top = <<Artist(1, <<"pop">>, 80)>> =>
             tp.preferredGenres = <<[genre |-> "pop", weight |-> 80]>>

\* three liked tracks, none with a feature vector, one top artist (pop, 80)
C8_Witness ==
  /\ profPc = "done"
  /\ Len(profile.likedTracks) = 3
  /\ profile.audioFeatures = <<>>
  /\ fetched.topArtists = <<Artist(1, <<"pop">>, 80)>>
  /\ profile.userTasteProfile.avgDanceability = R(1, 2)
  /\ profile.userTasteProfile.preferredGenres = <<[genre |-> "pop", weight |-> 80]>>

\* the summed popularity of the top artists tagged with a genre
RECURSIVE GenreWeight(_, _)
GenreWeight(genre, topArtists) ==
  IF topArtists = <<>> THEN 0
  ELSE (IF genre \in Range(Head(topArtists).genres) THEN Head(topArtists).popularity ELSE 0)
         + GenreWeight(genre, Tail(topArtists))
GenresOf(topArtists) == UNION {Range(topArtists[k].genres) : k \in 1..Len(topArtists)}
WeightDescending(entries) ==
  \A i, j \in 1..Len(entries) : i < j => entries[i].weight >= entries[j].weight

\* C17: in the taste profile a call returns, preferredGenres lists each genre
\* of the top artists once, with the summed popularity of the top artists
\* tagged with it as weight, by weight descending, and at most 10 entries.
C17_GenresAccumulatedAndRanked ==
  profPc = "done" =>
    LET g == profile.userTasteProfile.preferredGenres
        top == fetched.topArtists
    IN  /\ Len(g) <= 10
        /\ \A i, j \in 1..Len(g) : i # j => g[i].genre # g[j].genre
        /\ \A i \in 1..Len(g) : g[i].weight = GenreWeight(g[i].genre, top)
        /\ WeightDescending(g)
        /\ Cardinality(GenresOf(top)) <= 10 => {g[i].genre : i \in 1..Len(g)} = GenresOf(top)

\* C18: in the taste profile a call returns, preferredArtists holds at most
\* 20 entries, one per top artist with its popularity as weight, by weight
\* descending.
C18_ArtistsRankedByPopularity ==
  profPc = "done" =>
    LET a == profile.userTasteProfile.preferredArtists
        top == fetched.topArtists
    IN  /\ Len(a) <= 20
        /\ \A i \in 1..Len(a) :
             \E k \in 1..Len(top) : a[i] = [artistId |-> top[k].id, weight |-> top[k].popularity]
        /\ WeightDescending(a)

(***************************************************************************)
(* buildUserMusicProfile as one function of what the collaborators answer: *)
(* the catalog's data, the raw-signal fetches that fail, the playlists and *)
(* the batches (by loop variable i) whose request fails.                   *)
(***************************************************************************)
RECURSIVE PlaylistLoop(_, _, _)
PlaylistLoop(entries, todo, failedPlaylists) ==
  IF todo = <<>> THEN entries
  ELSE PlaylistLoop(
         Append(entries,
                [id |-> Head(todo).id,
                 tracks |-> IF Head(todo).id \in failedPlaylists THEN <<>>
                            ELSE PlaylistItemTracks(PlaylistItems(Head(todo).id))]),
         Tail(todo), failedPlaylists)

RECURSIVE BatchLoop(_, _, _, _, _)
BatchLoop(map, ids, i, available, failedBatches) ==
  IF i >= Len(ids) THEN map
  ELSE BatchLoop(
         IF i \in failedBatches THEN map
         ELSE StoreFeatures(map, getAudioFeatures(Slice(ids, i, i + batchSize), available)),
         ids, i + batchSize, available, failedBatches)

buildUserMusicProfile(world, failedSignals, failedPlaylists, failedBatches) ==
  LET val == [sig \in Signals |-> IF sig \in failedSignals THEN <<>> ELSE world[sig]]
      plTracks == PlaylistLoop(<<>>, PlaylistsToFetch(val.playlists), failedPlaylists)
      feats == BatchLoop(<<>>, priorityTrackIds(val.top, val.recent, val.liked), 0,
                         world.features, failedBatches)
  IN  FinishProfile(val, plTracks, feats).profile

(***************************************************************************)
(* Array.prototype.sort with the comparator of line 918.  The comparator   *)
(* draws a new random term at every comparison, so the order it reports    *)
(* for two candidates whose scores are less than 0.1 apart is open.  The   *)
(* engine sorts an array of fewer than 64 elements by finding the run the  *)
(* array starts with and inserting the remaining elements by binary        *)
(* search; the operators below give every array this can produce.          *)
(***************************************************************************)
JitterBound == R(1, 10)     \* (Math.random() - 0.5) * 0.2 lies in [-0.1, 0.1)

\* comparefn(a, b) = b.similarityScore - a.similarityScore + jitter can be < 0
CanBeNegative(a, b) == RLt(RSub(b.similarityScore, a.similarityScore), JitterBound)
\* comparefn(a, b) can be >= 0
CanBeNonNegative(a, b) == RLt(RSub(a.similarityScore, b.similarityScore), JitterBound)

\* The lengths the initial run can be found to have; idx is the element
\* compared with its predecessor.
RECURSIVE RunLengths(_, _, _)
RunLengths(arr, idx, isDescending) ==
  IF idx > Len(arr) THEN {idx - 1}
  ELSE LET canBreak == IF isDescending THEN CanBeNonNegative(arr[idx], arr[idx - 1])
                       ELSE CanBeNegative(arr[idx], arr[idx - 1])
           canGoOn == IF isDescending THEN CanBeNegative(arr[idx], arr[idx - 1])
                      ELSE CanBeNonNegative(arr[idx], arr[idx - 1])
       IN  (IF canBreak THEN {idx - 1} ELSE {})
             \cup (IF canGoOn THEN RunLengths(arr, idx + 1, isDescending) ELSE {})

ReverseRange(arr, n) ==
  [k \in 1..Len(arr) |-> IF k <= n THEN arr[n + 1 - k] ELSE arr[k]]

\* The arrays after the initial run is found and, if descending, reversed,
\* each with the length of the run.
CountAndMakeRun(arr) ==
  IF Len(arr) < 2 THEN {[arr |-> arr, run |-> Len(arr)]}
  ELSE (IF CanBeNegative(arr[2], arr[1])
        THEN {[arr |-> ReverseRange(arr, n), run |-> n] : n \in RunLengths(arr, 3, TRUE)}
        ELSE {})
         \cup
       (IF CanBeNonNegative(arr[2], arr[1])
        THEN {[arr |-> arr, run |-> n] : n \in RunLengths(arr, 3, FALSE)}
        ELSE {})

\* The positions (0-based, in left..right) the binary search can end at for
\* pivot in the sorted prefix of arr.
RECURSIVE InsertPositions(_, _, _, _)
InsertPositions(arr, pivot, left, right) ==
  IF left >= right THEN {left}
  ELSE LET mid == left + ((right - left) \div 2)
       IN  (IF CanBeNegative(pivot, arr[mid + 1])
            THEN InsertPositions(arr, pivot, left, mid) ELSE {})
             \cup
           (IF CanBeNonNegative(pivot, arr[mid + 1])
            THEN InsertPositions(arr, pivot, mid + 1, right) ELSE {})

\* arr with its element at 1-based index start moved to 0-based position pos
MoveTo(arr, start, pos) ==
  [k \in 1..Len(arr) |->
     IF k <= pos THEN arr[k]
     ELSE IF k = pos + 1 THEN arr[start]
     ELSE IF k <= start THEN arr[k - 1]
     ELSE arr[k]]

\* The arrays binary insertion can leave when arr[1..start-1] is the sorted
\* prefix.
RECURSIVE BinaryInsertionSort(_, _)
BinaryInsertionSort(arr, start) ==
  IF start > Len(arr) THEN {arr}
  ELSE UNION {BinaryInsertionSort(MoveTo(arr, start, pos), start + 1) :
                pos \in InsertPositions(arr, arr[start], 0, start - 1)}

\* Every array .sort(comparator of line 918) can leave.
SortWithJitter(arr) ==
  UNION {BinaryInsertionSort(r.arr, r.run + 1) : r \in CountAndMakeRun(arr)}

\* [...recommendations].sort(() => Math.random() - 0.5): every comparison is
\* open, every permutation can come out.
Shuffled(arr) ==
  {[k \in 1..Len(arr) |-> arr[f[k]]] : f \in Permutations(1..Len(arr))}

\* lines 913-919: shuffle, sort, slice
ShuffleSortSliceOutcomes(recommendations, limit) ==
  {Slice(sorted, 0, limit) :
     sorted \in UNION {SortWithJitter(q) : q \in Shuffled(recommendations)}}

(***************************************************************************)
(* Spec: one GET /recommendations request, one action per await of the     *)
(* handler, of getLastFmRecommendations and of                             *)
(* getSearchBasedRecommendations.  buildUserMusicProfile is one step here. *)
(***************************************************************************)
MaxSimilarArtists == 2     \* longest similar-artist answer of Last.fm
MaxSimilarTracks == 1      \* longest similar-track answer of Last.fm
MaxSearchResults == 2      \* longest catalog search answer

\* The listeners of this specification.
RecWorlds ==
  {[liked |-> TrackList(<<1, 2>>), playlists |-> <<Playlist(1, "me")>>,
    recent |-> TrackList(<<2>>), top |-> TrackList(<<1>>),
    topArtists |-> <<Artist(1, <<"pop", "rock">>, 60), Artist(NArtists, <<"rock">>, 70)>>,
    features |-> TrackIds],
   [liked |-> <<>>, playlists |-> <<>>, recent |-> <<>>, top |-> <<>>,
    topArtists |-> <<>>, features |-> {}]}

\* What buildUserMusicProfile can return for a listener: every fetch
\* answers, or the audio-feature batch fails.
ProfileOutcomes ==
  [w \in RecWorlds |->
     {buildUserMusicProfile(w, {}, {}, fb) : fb \in {{}, {0}}}]

LimitQueries == {Undefined, Some(0), Some(1), Some(2), Some(20), Some(1000)}

\* Sequences without repetition over a set, up to a length.
RECURSIVE DistinctSeqs(_, _)
DistinctSeqs(S, n) ==
  IF n = 0 THEN {<<>>}
  ELSE LET shorter == DistinctSeqs(S, n - 1)
           longer == {Append(q, x) : q \in shorter, x \in S}
       IN  shorter \cup {q \in longer : \A i, j \in 1..Len(q) : i # j => q[i] # q[j]}

\* What Last.fm knows: an artist under its catalog name, with a match score
\* (absent for even artists); a track under the catalog's name or under
\* another spelling of it.
LastFmMatch(a) == IF a % 2 = 1 THEN Some(R(4, 5)) ELSE Undefined
SimilarArtistsAnswers ==
  {[k \in 1..Len(q) |-> LastFmArtist(ArtistName(q[k]), LastFmMatch(q[k]))] :
     q \in DistinctSeqs(ArtistIds, MaxSimilarArtists)}

OtherSpelling(name) == name \o <<"'">>
LastFmTracksOf(t) ==
  {LastFmTrack(ArtistName(ArtistIdOf(t)), TrackName(t), Some(R(9, 10))),
   LastFmTrack(ArtistName(ArtistIdOf(t)), OtherSpelling(TrackName(t)), Some(R(9, 10)))}
SimilarTracksAnswers ==
  DistinctSeqs(UNION {LastFmTracksOf(t) : t \in TrackIds}, MaxSimilarTracks)

\* What the catalog answers to artist:"name": tracks whose first artist has
\* that name.
ArtistSearchAnswers(name) ==
  LET ids == {t \in TrackIds : ToLowerCase(ArtistName(ArtistIdOf(t))) = ToLowerCase(name)}
  IN  {TrackList(q) : q \in DistinctSeqs(ids, MaxSearchResults)}

\* What the catalog answers to artist:"a" track:"n" with limit 1: nothing,
\* or a track of that artist that Last.fm lists under that name.
TrackSearchAnswers(lastFmTrack) ==
  {<<>>} \cup {<<Track(t)>> : t \in {u \in TrackIds : lastFmTrack \in LastFmTracksOf(u)}}

\* What the catalog answers to genre:"g" year:2020-2024.
GenreSearchAnswers == {TrackList(q) : q \in DistinctSeqs(TrackIds, MaxSearchResults)}

Init ==
  /\ env \in [authenticated : BOOLEAN, query : LimitQueries, lastFmConfigured : BOOLEAN,
            listener : RecWorlds]
  /\ recPc = "start"
  /\ recLimit = 0
  /\ recProfile = <<>>
  /\ call = NoCall
  /\ formattedRecommendations = <<>>
  /\ recResponse = NoResponse
  /\ lastFm = "unasked"
  /\ SimIdle
  /\ SeedIdle
  /\ ProfIdle
  /\ CustIdle
  /\ ConcIdle
  /\ ExtIdle

\* ----- the control flow of getLastFmRecommendations between its awaits -----
\* A call is [pc, recommendations, seenTracks, seedsLeft, artistName,
\* similarLeft, lastFmArtist, favLeft, fav, tracksLeft, lastFmTrack].
Unset == <<>>

\* lines 913-919 are reached: the list is handed to the shuffle and sort
ToSort(c) ==
  [pc |-> "sort", recommendations |-> c.recommendations, seenTracks |-> {},
   seedsLeft |-> <<>>, artistName |-> Unset, similarLeft |-> <<>>,
   lastFmArtist |-> Unset, favLeft |-> <<>>, fav |-> Unset, tracksLeft |-> <<>>,
   lastFmTrack |-> Unset]

\* `for (const track of favoriteTracksToAnalyze)` up to getSimilarTracks
RECURSIVE FavLoop(_, _)
FavLoop(c, lim) ==
  IF c.favLeft = <<>> \/ Len(c.recommendations) >= lim THEN ToSort(c)
  ELSE LET track == Head(c.favLeft)
       IN  IF Len(track.artists) = 0 \/ FirstArtistName(track) = <<>> \/ track.name = <<>>
           THEN FavLoop([c EXCEPT !.favLeft = Tail(c.favLeft)], lim)
           ELSE [c EXCEPT !.pc = "similarTracks", !.fav = track,
                          !.favLeft = Tail(c.favLeft)]

\* `for (const lastFmTrack of similarTracks)` up to the exact search
RECURSIVE SimilarTrackLoop(_, _)
SimilarTrackLoop(c, lim) ==
  IF c.tracksLeft = <<>> \/ Len(c.recommendations) >= lim
  THEN FavLoop([c EXCEPT !.tracksLeft = <<>>, !.fav = Unset, !.lastFmTrack = Unset], lim)
  ELSE LET lastFmTrack == Head(c.tracksLeft)
           trackKey == TrackKey(lastFmTrack.artist.name, lastFmTrack.name)
       IN  IF trackKey \in c.seenTracks
           THEN SimilarTrackLoop([c EXCEPT !.tracksLeft = Tail(c.tracksLeft)], lim)
           ELSE [c EXCEPT !.pc = "trackSearch", !.lastFmTrack = lastFmTrack,
                          !.seenTracks = c.seenTracks \cup {trackKey},
                          !.tracksLeft = Tail(c.tracksLeft)]

\* line 840: the track-similarity extension is entered, or skipped
Extension(c, profile_, lim) ==
  IF Len(c.recommendations) < lim
  THEN FavLoop([c EXCEPT !.seedsLeft = <<>>, !.artistName = Unset, !.similarLeft = <<>>,
                         !.lastFmArtist = Unset,
                         !.favLeft = Slice(profile_.likedTracks, 0, FavoriteTrackCap)], lim)
  ELSE ToSort(c)

\* `for (const { artistId } of preferredArtists)` up to getSimilarArtists
RECURSIVE SeedLoop(_, _, _)
SeedLoop(c, profile_, lim) ==
  IF c.seedsLeft = <<>> THEN Extension(c, profile_, lim)
  ELSE LET artistName == findArtistNameById(Head(c.seedsLeft).artistId, profile_)
       IN  IF ~artistName.some \/ artistName.v = <<>>
           THEN SeedLoop([c EXCEPT !.seedsLeft = Tail(c.seedsLeft)], profile_, lim)
           ELSE [c EXCEPT !.pc = "similarArtists", !.artistName = artistName.v,
                          !.seedsLeft = Tail(c.seedsLeft)]

\* `for (const lastFmArtist of similarArtists.slice(0, 3))` up to the search;
\* after the loop, line 836
SimilarArtistLoop(c, profile_, lim) ==
  IF c.similarLeft = <<>>
  THEN IF Len(c.recommendations) >= lim
       THEN Extension(c, profile_, lim)
       ELSE SeedLoop([c EXCEPT !.artistName = Unset, !.lastFmArtist = Unset], profile_, lim)
  ELSE [c EXCEPT !.pc = "artistSearch", !.lastFmArtist = Head(c.similarLeft),
                 !.similarLeft = Tail(c.similarLeft)]

\* lines 765-776: a configured call up to its first await
StartLastFm(profile_, lim) ==
  SeedLoop([pc |-> "start", recommendations |-> <<>>,
            seenTracks |-> UserTrackKeys(profile_),
            seedsLeft |-> Slice(profile_.userTasteProfile.preferredArtists, 0, SeedArtistCap),
            artistName |-> Unset, similarLeft |-> <<>>, lastFmArtist |-> Unset,
            favLeft |-> <<>>, fav |-> Unset, tracksLeft |-> <<>>, lastFmTrack |-> Unset],
           profile_, lim)

\* ----- getSearchBasedRecommendations between its awaits -----
\* A call is [pc, recommendations, genresLeft, genre].
GenreReturn(c) ==
  [pc |-> "return", recommendations |-> c.recommendations, genresLeft |-> <<>>,
   genre |-> Unset]

GenreLoop(c, lim) ==
  IF c.genresLeft = <<>> \/ Len(c.recommendations) >= lim THEN GenreReturn(c)
  ELSE [c EXCEPT !.pc = "genreSearch", !.genre = Head(c.genresLeft).genre,
                 !.genresLeft = Tail(c.genresLeft)]

StartSearchBased(profile_, lim) ==
  GenreLoop([pc |-> "start", recommendations |-> <<>>,
             genresLeft |-> Slice(profile_.userTasteProfile.preferredGenres, 0, FallbackGenreCap),
             genre |-> Unset], lim)

\* What is known of Last.fm after one more answer of it.
LastFmAfter(answer) ==
  IF answer # <<>> \/ lastFm = "answered" THEN "answered" ELSE "down"

\* The handler moves to the await the call stopped at; a returned list
\* becomes formattedRecommendations and the handler goes on to its second
\* buildUserMusicProfile call.
Goto(c) ==
  /\ recPc' = IF c.pc = "return" THEN "profile2" ELSE c.pc
  /\ call' = IF c.pc = "return" THEN NoCall ELSE c
  /\ formattedRecommendations' =
       IF c.pc = "return" THEN c.recommendations ELSE formattedRecommendations

\* The catch block of the route (lines 235-275).
CatchToMock ==
  /\ recPc' = "profile2"
  /\ call' = NoCall
  /\ formattedRecommendations' = MockRecommendations

Respond(userTasteProfile) ==
  /\ recPc' = "responded"
  /\ recResponse' =
       [status |-> 200, success |-> TRUE,
        data |-> [recommendations |-> formattedRecommendations,
                  userTasteProfile |-> userTasteProfile,
                  stats |-> RouteStats(formattedRecommendations)]]

\* lines 207-226: the session check and the limit, up to the first await
HandleRequest ==
  /\ recPc = "start"
  /\ IF env.authenticated
     THEN /\ recPc' = "profile"
          /\ recLimit' = ParseLimit(env.query)
          /\ UNCHANGED recResponse
     ELSE /\ recPc' = "responded"
          /\ recResponse' = [status |-> 401, error |-> "Not authenticated"]
          /\ UNCHANGED recLimit
  /\ UNCHANGED <<env, recProfile, call, formattedRecommendations, lastFm,
                 simVars, seedVars, profVars, custVars, concVars, extVars>>

\* buildUserMusicProfile returns; getLastFmRecommendations runs to its first
\* await (lines 226-230, 759-782, 943-953).
ProfileBuilt ==
  /\ recPc = "profile"
  /\ \E p \in ProfileOutcomes[env.listener] :
       /\ recProfile' = p
       /\ Goto(IF env.lastFmConfigured THEN StartLastFm(p, recLimit)
               ELSE StartSearchBased(p, recLimit))
  /\ UNCHANGED <<env, recLimit, recResponse, lastFm, simVars, seedVars, profVars, custVars, concVars, extVars>>

\* buildUserMusicProfile throws (a catalog answer without the expected
\* shape); the route's catch block takes over.
ProfileThrows ==
  /\ recPc = "profile"
  /\ CatchToMock
  /\ UNCHANGED <<env, recLimit, recProfile, recResponse, lastFm,
                 simVars, seedVars, profVars, custVars, concVars, extVars>>

\* The loop of line 784 over every similar artist received.
SimilarArtistsToVisit_All(similarArtists) == similarArtists

\* similarArtists.slice(0, 3) of line 784
SimilarArtistsToVisit(similarArtists) == Slice(similarArtists, 0, SimilarArtistCap)

\* getSimilarArtists returns Last.fm's list (line 782).
SimilarArtistsResolve ==
  /\ recPc = "similarArtists"
  /\ \E answer \in SimilarArtistsAnswers :
       /\ Goto(SimilarArtistLoop(
                 [call EXCEPT !.similarLeft = SimilarArtistsToVisit(answer)],
                 recProfile, recLimit))
       /\ lastFm' = LastFmAfter(answer)
  /\ UNCHANGED <<env, recLimit, recProfile, recResponse, simVars, seedVars, profVars, custVars, concVars, extVars>>

\* The Last.fm request fails; getSimilarArtists catches and returns [].
SimilarArtistsFail ==
  /\ recPc = "similarArtists"
  /\ Goto(SimilarArtistLoop([call EXCEPT !.similarLeft = <<>>], recProfile, recLimit))
  /\ lastFm' = LastFmAfter(<<>>)
  /\ UNCHANGED <<env, recLimit, recProfile, recResponse,
                 simVars, seedVars, profVars, custVars, concVars, extVars>>

\* The artist-constrained search returns; its tracks are processed, each
\* with its feature lookup (lines 786-834).
ArtistSearchResolves ==
  /\ recPc = "artistSearch"
  /\ \E items \in ArtistSearchAnswers(call.lastFmArtist.name) :
     \E failing \in SUBSET {items[k].id : k \in 1..Len(items)} :
       LET acc == ArtistTracksLoop(
                    [recs |-> call.recommendations, seen |-> call.seenTracks],
                    items, failing, call.artistName, call.lastFmArtist,
                    recProfile.userTasteProfile, recLimit)
           c == [call EXCEPT !.recommendations = acc.recs, !.seenTracks = acc.seen]
       IN  Goto(IF Len(acc.recs) >= recLimit
                THEN Extension(c, recProfile, recLimit)
                ELSE SimilarArtistLoop(c, recProfile, recLimit))
  /\ UNCHANGED <<env, recLimit, recProfile, recResponse, lastFm,
                 simVars, seedVars, profVars, custVars, concVars, extVars>>

\* searchTracks throws inside the try block: line 909 catches.
ArtistSearchFails ==
  /\ recPc = "artistSearch"
  /\ Goto(ToSort(call))
  /\ UNCHANGED <<env, recLimit, recProfile, recResponse, lastFm,
                 simVars, seedVars, profVars, custVars, concVars, extVars>>

\* getSimilarTracks returns Last.fm's list (line 852).
SimilarTracksResolve ==
  /\ recPc = "similarTracks"
  /\ \E answer \in SimilarTracksAnswers :
       /\ Goto(SimilarTrackLoop([call EXCEPT !.tracksLeft = answer], recLimit))
       /\ lastFm' = LastFmAfter(answer)
  /\ UNCHANGED <<env, recLimit, recProfile, recResponse, simVars, seedVars, profVars, custVars, concVars, extVars>>

\* The Last.fm request fails; getSimilarTracks catches and returns [].
SimilarTracksFail ==
  /\ recPc = "similarTracks"
  /\ Goto(SimilarTrackLoop([call EXCEPT !.tracksLeft = <<>>], recLimit))
  /\ lastFm' = LastFmAfter(<<>>)
  /\ UNCHANGED <<env, recLimit, recProfile, recResponse,
                 simVars, seedVars, profVars, custVars, concVars, extVars>>

\* The exact search returns; its first track is added (lines 864-904).
TrackSearchResolves ==
  /\ recPc = "trackSearch"
  /\ \E items \in TrackSearchAnswers(call.lastFmTrack) :
     \E failing \in SUBSET {items[k].id : k \in 1..Len(items)} :
       Goto(SimilarTrackLoop(
              [call EXCEPT !.recommendations =
                 TrackSearchPush(call.recommendations, items, failing, call.fav,
                                 call.lastFmTrack, recProfile.userTasteProfile)],
              recLimit))
  /\ UNCHANGED <<env, recLimit, recProfile, recResponse, lastFm,
                 simVars, seedVars, profVars, custVars, concVars, extVars>>

\* searchTracks throws inside the try block: line 909 catches.
TrackSearchFails ==
  /\ recPc = "trackSearch"
  /\ Goto(ToSort(call))
  /\ UNCHANGED <<env, recLimit, recProfile, recResponse, lastFm,
                 simVars, seedVars, profVars, custVars, concVars, extVars>>

\* The genre search of getSearchBasedRecommendations returns (lines 953-984).
GenreSearchResolves ==
  /\ recPc = "genreSearch"
  /\ \E items \in GenreSearchAnswers :
       Goto(GenreLoop([call EXCEPT !.recommendations =
                         GenreTracksLoop(call.recommendations, items, call.genre, recLimit)],
                      recLimit))
  /\ UNCHANGED <<env, recLimit, recProfile, recResponse, lastFm,
                 simVars, seedVars, profVars, custVars, concVars, extVars>>

\* GenreSearchFails without the route's catch block: the error reaches the
\* caller.
GenreSearchFails_Unhandled ==
  /\ recPc = "genreSearch"
  /\ recPc' = "responded"
  /\ recResponse' = [status |-> 500, error |-> "Internal Server Error"]
  /\ UNCHANGED <<env, recLimit, recProfile, call, formattedRecommendations, lastFm,
                 simVars, seedVars, profVars, custVars, concVars, extVars>>

\* searchTracks throws; nothing in getSearchBasedRecommendations or
\* getLastFmRecommendations catches, the route does.
GenreSearchFails ==
  /\ recPc = "genreSearch"
  /\ CatchToMock
  /\ UNCHANGED <<env, recLimit, recProfile, recResponse, lastFm,
                 simVars, seedVars, profVars, custVars, concVars, extVars>>

\* Lines 913-919: the shuffle, the sort with a random term in the
\* comparator, and the slice to limit.
ShuffleSortSlice ==
  /\ recPc = "sort"
  /\ formattedRecommendations' \in ShuffleSortSliceOutcomes(call.recommendations, recLimit)
  /\ recPc' = "profile2"
  /\ call' = NoCall
  /\ UNCHANGED <<env, recLimit, recProfile, recResponse, lastFm,
                 simVars, seedVars, profVars, custVars, concVars, extVars>>

\* The second buildUserMusicProfile call returns; the response is sent
\* (lines 298-321).
ProfileRebuilt ==
  /\ recPc = "profile2"
  /\ \E p \in ProfileOutcomes[env.listener] : Respond(p.userTasteProfile)
  /\ UNCHANGED <<env, recLimit, recProfile, call, formattedRecommendations,
                 lastFm, simVars, seedVars, profVars, custVars, concVars, extVars>>

\* The second call throws; the response carries the route's default taste
\* profile (lines 303-321).
ProfileRebuildThrows ==
  /\ recPc = "profile2"
  /\ Respond(RouteDefaultTasteProfile)
  /\ UNCHANGED <<env, recLimit, recProfile, call, formattedRecommendations,
                 lastFm, simVars, seedVars, profVars, custVars, concVars, extVars>>

Next ==
  \/ HandleRequest
  \/ ProfileBuilt
  \/ ProfileThrows
  \/ SimilarArtistsResolve
  \/ SimilarArtistsFail
  \/ ArtistSearchResolves
  \/ ArtistSearchFails
  \/ SimilarTracksResolve
  \/ SimilarTracksFail
  \/ TrackSearchResolves
  \/ TrackSearchFails
  \/ GenreSearchResolves
  \/ GenreSearchFails
  \/ ShuffleSortSlice
  \/ ProfileRebuilt
  \/ ProfileRebuildThrows

Spec == Init /\ [][Next]_vars

(***************************************************************************)
(* SpecCustom: one POST /recommendations/custom request, one action per    *)
(* await of the handler.                                                   *)
(***************************************************************************)
MaxCustomTracks == 2     \* longest answer of the catalog's /recommendations

DefaultSeedGenres == <<"pop", "rock">>
CustomReason == [text |-> "Custom discovery based on your preferences"]

\* seedGenres && seedGenres.length > 0 ? seedGenres : ['pop', 'rock']
finalSeedGenres(seedGenres) ==
  IF OptLength(seedGenres) > 0 THEN seedGenres ELSE Some(DefaultSeedGenres)
\* seedArtists && seedArtists.length > 0 ? seedArtists : undefined
finalSeedArtists(seedArtists) ==
  IF OptLength(seedArtists) > 0 THEN seedArtists ELSE Undefined
\* const { limit = 20 } = req.body
BodyLimit(body) == IF body.limit.some THEN body.limit.v ELSE DefaultLimit

CustomBodies ==
  [audioFeatureTargets : {Undefined, Some("danceability" :> Num(R(1, 2))),
                          Some("energy" :> Num(RInt(2)))},
   seedGenres : {Undefined, Some(<<>>), Some(<<"jazz">>)},
   seedArtists : {Undefined, Some(<<>>), Some(<<1>>), Some([i \in 1..MaxSeeds |-> i])},
   limit : {Undefined, Some(1)}]

\* recommendations.tracks.map((track, index) => ({...}))
enrichedRecommendations(tracks, features) ==
  [index \in 1..Len(tracks) |->
     TrackRecommendation(tracks[index],
                         IF index <= Len(features) THEN features[index] ELSE Undefined,
                         ROne, <<CustomReason>>, "custom")]

CustomError(details) ==
  [status |-> 500, error |-> "Failed to generate custom recommendations",
   details |-> details]

CustInit ==
  /\ custReq \in [authenticated : BOOLEAN, body : CustomBodies]
  /\ custPc = "start"
  /\ custParams = <<>>
  /\ custTracks = <<>>
  /\ custResponse = NoResponse
  /\ SimIdle
  /\ SeedIdle
  /\ ProfIdle
  /\ RecIdle
  /\ ConcIdle
  /\ ExtIdle

\* Lines 325-358: the session check, the seeds, and getSpotifyRecommendations
\* up to its request.
CustomRequest ==
  /\ custPc = "start"
  /\ IF ~custReq.authenticated
     THEN /\ custPc' = "responded"
          /\ custResponse' = [status |-> 401, error |-> "Not authenticated"]
          /\ UNCHANGED custParams
     ELSE LET body == custReq.body
              r == getSpotifyRecommendations(Undefined, finalSeedArtists(body.seedArtists),
                                             finalSeedGenres(body.seedGenres),
                                             body.audioFeatureTargets, BodyLimit(body))
          IN  IF r.thrown
              THEN /\ custPc' = "responded"
                   /\ custResponse' = CustomError(r.message)
                   /\ UNCHANGED custParams
              ELSE /\ custPc' = "recommendations"
                   /\ custParams' = r.params
                   /\ UNCHANGED custResponse
  /\ UNCHANGED <<custReq, custTracks, simVars, seedVars, profVars, recVars, concVars, extVars>>

\* The catalog answers /recommendations; getAudioFeatures is requested
\* (lines 360-362).
CustomRecommendationsResolve ==
  /\ custPc = "recommendations"
  /\ \E q \in DistinctSeqs(TrackIds, MaxCustomTracks) : custTracks' = TrackList(q)
  /\ custPc' = "features"
  /\ UNCHANGED <<custReq, custParams, custResponse, simVars, seedVars, profVars, recVars, concVars, extVars>>

CustomRecommendationsFail ==
  /\ custPc = "recommendations"
  /\ custPc' = "responded"
  /\ custResponse' = CustomError("request failed")
  /\ UNCHANGED <<custReq, custParams, custTracks, simVars, seedVars, profVars, recVars, concVars, extVars>>

\* getAudioFeatures returns the vectors the catalog holds, nulls dropped;
\* the response is sent (lines 362-383).
CustomFeaturesResolve ==
  /\ custPc = "features"
  /\ \E available \in SUBSET TrackIds :
       LET trackIds == [k \in 1..Len(custTracks) |-> custTracks[k].id]
           features == getAudioFeatures(trackIds, available)
           enriched == enrichedRecommendations(custTracks, features)
       IN  custResponse' =
             [status |-> 200, success |-> TRUE,
              data |-> [recommendations |-> enriched,
                        requestedTargets |-> custReq.body.audioFeatureTargets,
                        stats |-> [totalRecommendations |-> Len(enriched)]]]
  /\ custPc' = "responded"
  /\ UNCHANGED <<custReq, custParams, custTracks, simVars, seedVars, profVars, recVars, concVars, extVars>>

CustomFeaturesFail ==
  /\ custPc = "features"
  /\ custPc' = "responded"
  /\ custResponse' = CustomError("Failed to fetch audio features")
  /\ UNCHANGED <<custReq, custParams, custTracks, simVars, seedVars, profVars, recVars, concVars, extVars>>

CustNext ==
  \/ CustomRequest
  \/ CustomRecommendationsResolve
  \/ CustomRecommendationsFail
  \/ CustomFeaturesResolve
  \/ CustomFeaturesFail

SpecCustom == CustInit /\ [][CustNext]_vars

(***************************************************************************)
(* SpecConcurrent: two buildUserMusicProfile calls for different listeners *)
(* in flight on the router's one SpotifyService instance, interleaved at   *)
(* their awaits.  Promise.all is one await of the call.                    *)
(***************************************************************************)
Requests == {1, 2}

\* The instance after its constructor (lines 417-421, 339-341): the only
\* assignments to this.* in the class.
NewSpotifyService ==
  [clientId |-> "SPOTIFY_CLIENT_ID", clientSecret |-> "SPOTIFY_CLIENT_SECRET",
   redirectUri |-> "SPOTIFY_REDIRECT_URI", baseUrl |-> "https://api.spotify.com/v1",
   lastFmService |-> [apiKey |-> "LASTFM_API_KEY"]]

ConcListeners ==
  {[liked |-> TrackList(<<1, 2>>), playlists |-> <<Playlist(1, "me")>>,
    recent |-> TrackList(<<2>>), top |-> TrackList(<<1>>),
    topArtists |-> <<Artist(1, <<"pop">>, 80)>>, features |-> TrackIds],
   [liked |-> TrackList(<<3>>), playlists |-> <<>>,
    recent |-> <<>>, top |-> TrackList(<<NTracks, 3>>),
    topArtists |-> <<Artist(NArtists, <<"rock">>, 70)>>, features |-> TrackIds \ {3}]}
ConcFailedSignals == SUBSET {"liked", "topArtists"}

\* The locals of a call that has just started its five fetches.
StartedCall(listener) ==
  [listener |-> listener, pc |-> "fanout", fetched |-> <<>>, playlistTracks |-> <<>>,
   audioFeatures |-> <<>>, batchStart |-> 0, profile |-> NoProfile,
   failedSignals |-> {}, failedPlaylists |-> {}, failedBatches |-> {}]

ConcInit ==
  /\ service = NewSpotifyService
  /\ reqs \in {q \in [Requests -> {StartedCall(w) : w \in ConcListeners}] :
                 q[1].listener # q[2].listener}
  /\ SimIdle
  /\ SeedIdle
  /\ ProfIdle
  /\ RecIdle
  /\ CustIdle
  /\ ExtIdle

\* the call's locals after it ran on to its next await
Resume(local, next) ==
  [local EXCEPT !.pc = next.pc, !.playlistTracks = next.playlistTracks,
                !.audioFeatures = next.audioFeatures, !.profile = next.profile]

\* A call that keeps its feature map on the instance instead of in a local:
\* it sees the entries of every call.
FeatureMapSeenBy_OnInstance(r) ==
  LET other == CHOOSE o \in Requests : o # r
  IN  reqs[r].audioFeatures @@ reqs[other].audioFeatures

\* const audioFeatures: { [id: string]: AudioFeatures } = {} (line 1065)
FeatureMapSeenBy(r) ==
  reqs[r].audioFeatures

\* Promise.all of call r settles (lines 998-1019).
ConcFanoutSettles(r) ==
  /\ reqs[r].pc = "fanout"
  /\ \E failed \in ConcFailedSignals :
       LET val == [sig \in Signals |-> IF sig \in failed THEN <<>> ELSE reqs[r].listener[sig]]
           local == [reqs[r] EXCEPT !.fetched = val, !.failedSignals = failed]
       IN  reqs' = [reqs EXCEPT ![r] = Resume(local, AfterFanout(val))]
  /\ UNCHANGED <<service, simVars, seedVars, profVars, recVars, custVars, extVars>>

ConcPlaylistSettles(r, ok) ==
  LET local == reqs[r]
      todo == PlaylistsToFetch(local.fetched.playlists)
      playlist == todo[Len(local.playlistTracks) + 1]
      tracks == IF ok THEN PlaylistItemTracks(PlaylistItems(playlist.id)) ELSE <<>>
      plTracks == Append(local.playlistTracks, [id |-> playlist.id, tracks |-> tracks])
      noted == [local EXCEPT !.failedPlaylists =
                  IF ok THEN @ ELSE @ \cup {playlist.id}]
  IN  reqs' = [reqs EXCEPT ![r] =
                 IF Len(plTracks) < Len(todo)
                 THEN [noted EXCEPT !.playlistTracks = plTracks]
                 ELSE Resume(noted, AfterPlaylists(local.fetched, plTracks))]

\* getPlaylistTracks of call r returns (lines 1026-1034)
ConcPlaylistResolves(r) ==
  /\ reqs[r].pc = "playlists"
  /\ ConcPlaylistSettles(r, TRUE)
  /\ UNCHANGED <<service, simVars, seedVars, profVars, recVars, custVars, extVars>>

\* getPlaylistTracks of call r throws
ConcPlaylistFails(r) ==
  /\ reqs[r].pc = "playlists"
  /\ ConcPlaylistSettles(r, FALSE)
  /\ UNCHANGED <<service, simVars, seedVars, profVars, recVars, custVars, extVars>>

ConcBatchSettles(r, ok) ==
  LET local == reqs[r]
      val == local.fetched
      ids == priorityTrackIds(val.top, val.recent, val.liked)
      batch == Slice(ids, local.batchStart, local.batchStart + batchSize)
      feats == IF ok
               THEN StoreFeatures(FeatureMapSeenBy(r),
                                  getAudioFeatures(batch, local.listener.features))
               ELSE FeatureMapSeenBy(r)
      noted == [local EXCEPT !.failedBatches = IF ok THEN @ ELSE @ \cup {local.batchStart},
                             !.batchStart = @ + batchSize]
  IN  reqs' = [reqs EXCEPT ![r] =
                 IF local.batchStart + batchSize < Len(ids)
                 THEN [noted EXCEPT !.audioFeatures = feats]
                 ELSE Resume(noted, FinishProfile(val, local.playlistTracks, feats))]

\* getAudioFeatures of call r returns (lines 1066-1086)
ConcBatchResolves(r) ==
  /\ reqs[r].pc = "batches"
  /\ ConcBatchSettles(r, TRUE)
  /\ UNCHANGED <<service, simVars, seedVars, profVars, recVars, custVars, extVars>>

\* getAudioFeatures of call r throws
ConcBatchFails(r) ==
  /\ reqs[r].pc = "batches"
  /\ ConcBatchSettles(r, FALSE)
  /\ UNCHANGED <<service, simVars, seedVars, profVars, recVars, custVars, extVars>>

ConcNext ==
  \/ \E r \in Requests : ConcFanoutSettles(r)
  \/ \E r \in Requests : ConcPlaylistResolves(r)
  \/ \E r \in Requests : ConcPlaylistFails(r)
  \/ \E r \in Requests : ConcBatchResolves(r)
  \/ \E r \in Requests : ConcBatchFails(r)

SpecConcurrent == ConcInit /\ [][ConcNext]_vars

Succeeded == recPc = "responded" /\ recResponse.status = 200
Returned == recResponse.data.recommendations
ReturnedIds == [k \in 1..Len(Returned) |-> Returned[k].track.id]
\* the limit the caller asked for (the route's default when it asked for none)
RequestedLimit == IF env.query.some THEN env.query.v ELSE DefaultLimit
ListenerIds ==
  {env.listener.liked[k].id : k \in 1..Len(env.listener.liked)}
    \cup {env.listener.recent[k].id : k \in 1..Len(env.listener.recent)}
CountSource(tag) == Cardinality({k \in 1..Len(Returned) : Returned[k].sourceType = tag})
MeanScore ==
  RDiv(RSumSeq([k \in 1..Len(Returned) |-> Returned[k].similarityScore]),
       RInt(Len(Returned)))

\* C1: in every returned recommendation list no catalog track identifier
\* appears more than once.
C1_NoDuplicateIds ==
  Succeeded => \A i, j \in 1..Len(Returned) : i # j => ReturnedIds[i] # ReturnedIds[j]

\* C2: no returned track has an identifier in the listener's liked-track or
\* recent-track identifier set.
C2_NoLikedOrRecentReturned ==
  Succeeded => \A k \in 1..Len(Returned) : ReturnedIds[k] \notin ListenerIds

\* C3: for every requested limit, 0 and 1000 included, at most that many
\* recommendations are returned.
C3_AtMostLimit ==
  Succeeded => Len(Returned) <= RequestedLimit

\* C4: when Last.fm is configured but every similar-artist and similar-track
\* request of the call failed or returned nothing, a request with limit 20
\* still returns between 1 and 20 recommendations.
C4_OutageStillRecommends ==
  (Succeeded /\ env.lastFmConfigured /\ lastFm = "down" /\ env.query = Some(20))
    => (Len(Returned) >= 1 /\ Len(Returned) <= 20)

WellFormedRecommendation(r) ==
  /\ DOMAIN r = {"track", "audioFeatures", "similarityScore", "reasons", "sourceType"}
  /\ r.sourceType \in {"collaborative", "content-based"}
WellFormedResponse ==
  /\ recResponse.status = 200
  /\ recResponse.success
  /\ DOMAIN recResponse.data = {"recommendations", "userTasteProfile", "stats"}
  /\ \A k \in 1..Len(Returned) : WellFormedRecommendation(Returned[k])
  /\ DOMAIN recResponse.data.userTasteProfile = DOMAIN RouteDefaultTasteProfile
  /\ DOMAIN recResponse.data.stats =
       {"totalRecommendations", "contentBasedCount", "collaborativeCount",
        "avgSimilarityScore"}

\* C5: for an authenticated caller every response of the handler, whatever
\* the catalog and Last.fm answered or failed to answer, is a success
\* carrying recommendations, a taste profile and stats, never an error.
C5_AuthenticatedAlwaysSucceeds ==
  (env.authenticated /\ recPc = "responded") => WellFormedResponse

\* A genre search threw in the fallback of an authenticated listener without
\* Last.fm, and the response is the success carrying the route's mock list.
C5_Witness ==
  /\ Succeeded /\ env.authenticated /\ ~env.lastFmConfigured
  /\ recProfile # <<>>
  /\ Returned = MockRecommendations

\* C9: the stats of every response agree with the returned list: the total is
\* its length, the two counts are the numbers of entries with each source
\* tag, and the average is the mean of the entries' similarity scores.
C9_StatsAgreeWithList ==
  Succeeded =>
    LET stats == recResponse.data.stats
    IN  /\ stats.totalRecommendations = Len(Returned)
        /\ stats.contentBasedCount = CountSource("content-based")
        /\ stats.collaborativeCount = CountSource("collaborative")
        /\ Len(Returned) > 0 => stats.avgSimilarityScore = MeanScore

\* C13: every returned recommendation carries either the catalog's vector
\* for its track or the neutral vector (0.5, 0.5, 0.5, 0.5, 0.1, 0.2, 0.1,
\* tempo 120).
C13_RealOrNeutralVector ==
  Succeeded =>
    \A k \in 1..Len(Returned) :
      LET id == Returned[k].track.id
      IN  \/ Returned[k].audioFeatures = NeutralFeatures(id)
          \/ id \in TrackIds /\ Returned[k].audioFeatures = CatalogFeatures(id)

\* C14: of two candidates, one of the artist-similarity phase and one of the
\* track-similarity extension, whose catalog tracks have the same lower-cased
\* (first artist name, track name) pair, at most one is in the returned list.
C14_OnePerNamePairAcrossStrategies ==
  Succeeded =>
    \A i, j \in 1..Len(Returned) :
      (Returned[i].sourceType = "collaborative" /\ Returned[j].sourceType = "content-based")
        => SpotifyTrackKey(Returned[i].track) # SpotifyTrackKey(Returned[j].track)

(***************************************************************************)
(* SpecEntryPoints: every entry point that hands out reasons, each run     *)
(* from its own initial states.                                            *)
(***************************************************************************)
SpecEntryPoints ==
  (Init \/ CustInit \/ SimInit) /\ [][Next \/ CustNext \/ SimNext]_vars

CustomSucceeded == custPc = "responded" /\ custResponse.status = 200
CustomReturned == custResponse.data.recommendations
AttributeReasonApplies ==
  \/ RLt(RAbs(RSub(simTaste.avgEnergy, simTrack.energy)), R(1, 5))
  \/ RLt(RAbs(RSub(simTaste.avgDanceability, simTrack.danceability)), R(1, 5))
  \/ RLt(RAbs(RSub(simTaste.avgValence, simTrack.valence)), R(1, 5))
PopularityReasonApplies == simPopularity > 70 \/ simPopularity < 30

\* C15: every recommendation of a GET /recommendations response and of a
\* custom response, and every list generateReasons returns, has at least one
\* reason; generateReasons returns the generic fallback reason exactly when
\* no attribute is within 0.2 of the listener's average and the popularity is
\* neither above 70 nor below 30.
C15_ReasonsNeverEmpty ==
  /\ Succeeded => \A k \in 1..Len(Returned) : Len(Returned[k].reasons) >= 1
  /\ CustomSucceeded =>
       \A k \in 1..Len(CustomReturned) : Len(CustomReturned[k].reasons) >= 1
  /\ simPc = "explained" =>
       /\ Len(simReasons) >= 1
       /\ (\E k \in 1..Len(simReasons) : simReasons[k] = FallbackReason)
            <=> (~AttributeReasonApplies /\ ~PopularityReasonApplies)

\* generateReasons was called for a track no specific reason applies to and
\* returned the fallback alone
C15_Witness ==
  /\ simPc = "explained"
  /\ ~AttributeReasonApplies /\ ~PopularityReasonApplies
  /\ simReasons = <<FallbackReason>>

(***************************************************************************)
(* The two phases of getLastFmRecommendations.                             *)
(***************************************************************************)
InArtistPhase == recPc \in {"similarArtists", "artistSearch"}

\* C21: whenever the artist-similarity phase ends, for whatever reason, with
\* fewer candidates than the requested limit, the track-similarity extension
\* runs: for a listener with liked tracks the call goes on to ask Last.fm
\* for the tracks similar to the first liked track.
C21_ExtensionRunsWhenShort ==
  [][(/\ InArtistPhase
      /\ ~InArtistPhase'
      /\ Len(call'.recommendations) < recLimit
      /\ recProfile.likedTracks # <<>>)
       => (recPc' = "similarTracks" /\ call'.fav = recProfile.likedTracks[1])]_vars

\* The same when the phase ends by running out of seeds and similar artists
\* or by reaching the limit.
ArtistPhaseEndsWithoutThrow ==
  [][(/\ InArtistPhase
      /\ ~InArtistPhase'
      /\ ~ArtistSearchFails
      /\ Len(call'.recommendations) < recLimit
      /\ recProfile.likedTracks # <<>>)
       => (recPc' = "similarTracks" /\ call'.fav = recProfile.likedTracks[1])]_vars

(***************************************************************************)
(* SpecAdvanced: one call of generateAdvancedRecommendations with its two  *)
(* strategies, one action per answer of the catalog.                       *)
(***************************************************************************)
MaxAdvTracks == 2
ContentSeedArtistCap == 2
ContentSeedGenreCap == 3
ArtistStrategyCap == 5

AdvRest == <<simVars, seedVars, profVars, recVars, custVars, concVars, sortVars, likedVars, reqVars, authVars, apiVars>>

\* Math.ceil(n / d) for non-negative integers
CeilDiv(n, d) == (n + d - 1) \div d
\* Math.ceil(limit * 0.6), Math.ceil(limit * 0.4), Math.ceil(limit / 5)
ContentLimit(limit) == CeilDiv(3 * limit, 5)
ArtistLimit(limit) == CeilDiv(2 * limit, 5)
PerArtistLimit(limit) == CeilDiv(limit, 5)

\* lines 1172-1175: the identifiers of the listener's own tracks
userTrackIds(userProfile) ==
  {t.id : t \in Range(userProfile.likedTracks)}
    \cup {o.track.id : o \in Range(PlaylistObjs(userProfile.playlistTracks))}
    \cup {t.id : t \in Range(userProfile.recentTracks)}

\* the arguments getContentBasedRecommendations hands to getSpotifyRecommendations
ContentSeeds(userTasteProfile, limit) ==
  LET artists == Slice(userTasteProfile.preferredArtists, 0, ContentSeedArtistCap)
      genres == Slice(userTasteProfile.preferredGenres, 0, ContentSeedGenreCap)
  IN  getSpotifyRecommendations(
        Undefined,
        Some([k \in 1..Len(artists) |-> artists[k].artistId]),
        Some([k \in 1..Len(genres) |-> genres[k].genre]),
        Some([danceability |-> Num(userTasteProfile.avgDanceability),
              energy |-> Num(userTasteProfile.avgEnergy),
              valence |-> Num(userTasteProfile.avgValence),
              acousticness |-> Num(userTasteProfile.avgAcousticness),
              tempo |-> Num(userTasteProfile.avgTempo)]),
        limit)

\* getContentBasedRecommendations after its two awaits (lines 1222-1248)
ContentBased(userProfile, excludeTrackIds, tracks, available) ==
  LET taste == userProfile.userTasteProfile
      response == getAudioFeatures([k \in 1..Len(tracks) |-> tracks[k].id], available)
      trackAudioFeatures == StoreFeatures(<<>>, response)
      kept == SelectSeqBy(tracks, {t \in Range(tracks) :
                                     /\ t.id \notin excludeTrackIds
                                     /\ t.id \in DOMAIN trackAudioFeatures})
  IN  [k \in 1..Len(kept) |->
         LET features == trackAudioFeatures[kept[k].id]
         IN  TrackRecommendation(kept[k], features,
                                 calculateAudioSimilarity(taste, features),
                                 generateReasons(taste, features, kept[k]),
                                 "content-based")]

FavoriteArtistsReason == [text |-> "Similar to your favorite artists"]

\* `for (const track of recs.tracks)` of getArtistBasedRecommendations
\* (lines 1270-1283); a failing feature lookup throws to the catch of the
\* artist, which keeps what was pushed before.
RECURSIVE ArtistTracks(_, _, _, _, _, _)
ArtistTracks(recs, tracks, failing, excludeTrackIds, limit, taste) ==
  IF tracks = <<>> THEN recs
  ELSE LET track == Head(tracks)
       IN  IF track.id \notin excludeTrackIds /\ Len(recs) < limit
           THEN IF track.id \in failing THEN recs
                ELSE ArtistTracks(
                       Append(recs,
                              TrackRecommendation(
                                track, CatalogFeatures(track.id),
                                calculateAudioSimilarity(taste, CatalogFeatures(track.id)),
                                <<FavoriteArtistsReason>>, "collaborative")),
                       Tail(tracks), failing, excludeTrackIds, limit, taste)
           ELSE ArtistTracks(recs, Tail(tracks), failing, excludeTrackIds, limit, taste)

\* .sort((a, b) => b.similarityScore - a.similarityScore): a stable
\* descending sort.
RECURSIVE InsertByScore(_, _)
InsertByScore(sorted, x) ==
  IF sorted = <<>> THEN <<x>>
  ELSE IF RLeq(x.similarityScore, Head(sorted).similarityScore)
       THEN <<Head(sorted)>> \o InsertByScore(Tail(sorted), x)
       ELSE <<x>> \o sorted

RECURSIVE SortByScoreDesc(_)
SortByScoreDesc(s) ==
  IF s = <<>> THEN <<>>
  ELSE InsertByScore(SortByScoreDesc(SubSeq(s, 1, Len(s) - 1)), s[Len(s)])

\* arr.findIndex(r => r.track.id === id), 1-based
FindIndexOfId(arr, id) == CHOOSE k \in 1..Len(arr) :
  arr[k].track.id = id /\ \A j \in 1..(k - 1) : arr[j].track.id # id

\* The filter of lines 1196-1200 without its findIndex test.
uniqueRecommendations_NoFirstOccurrence(recommendations, exclude, limit) ==
  LET index == [k \in 1..Len(recommendations) |-> k]
      keptIndex == SelectSeqBy(index, {k \in 1..Len(recommendations) :
                                         recommendations[k].track.id \notin exclude})
      filtered == [k \in 1..Len(keptIndex) |-> recommendations[keptIndex[k]]]
  IN  Slice(SortByScoreDesc(filtered), 0, limit)

\* lines 1196-1202: filter, sort, slice
uniqueRecommendations(recommendations, exclude, limit) ==
  LET index == [k \in 1..Len(recommendations) |-> k]
      keptIndex == SelectSeqBy(index, {k \in 1..Len(recommendations) :
                                         /\ recommendations[k].track.id \notin exclude
                                         /\ FindIndexOfId(recommendations,
                                                          recommendations[k].track.id) = k})
      filtered == [k \in 1..Len(keptIndex) |-> recommendations[keptIndex[k]]]
  IN  Slice(SortByScoreDesc(filtered), 0, limit)

\* The listeners: one whose liked, recent and playlist tracks cover all of
\* the catalog but one track, one with a single liked and recent track.
AdvWorlds ==
  {[liked |-> TrackList(<<1, 2>>), playlists |-> <<Playlist(1, "me")>>,
    recent |-> TrackList(<<2>>), top |-> TrackList(<<1>>),
    topArtists |-> <<Artist(1, <<"pop", "rock">>, 60), Artist(NArtists, <<"rock">>, 70)>>,
    features |-> TrackIds],
   [liked |-> TrackList(<<1>>), playlists |-> <<>>, recent |-> TrackList(<<1>>),
    top |-> <<>>, topArtists |-> <<Artist(1, <<"pop">>, 80)>>, features |-> TrackIds],
   [liked |-> <<>>, playlists |-> <<>>, recent |-> <<>>, top |-> <<>>,
    topArtists |-> <<>>, features |-> {}]}

AdvProfiles == {buildUserMusicProfile(w, {}, {}, {}) : w \in AdvWorlds}
AdvLimits == {0, 1, 2, 20}

\* what the catalog answers to a /recommendations request
AdvCatalogAnswers == {TrackList(q) : q \in DistinctSeqs(TrackIds, MaxAdvTracks)}

AdvInit ==
  /\ SimIdle
  /\ SeedIdle
  /\ ProfIdle
  /\ RecIdle
  /\ CustIdle
  /\ ConcIdle
  /\ SortIdle
  /\ LikedIdle
  /\ ReqIdle
  /\ AuthIdle
  /\ ApiIdle
  /\ advArgs \in [userProfile : AdvProfiles, limit : AdvLimits]
  /\ advPc = "called"
  /\ advRecommendations = <<>>
  /\ advArtistsLeft = <<>>
  /\ advArtistRecs = <<>>
  /\ advResult = <<>>

\* getArtistBasedRecommendations returns and lines 1194-1204 run
AdvReturn(recommendations, artistRecs) ==
  /\ advPc' = "returned"
  /\ advRecommendations' = recommendations \o artistRecs
  /\ advArtistRecs' = artistRecs
  /\ advArtistsLeft' = <<>>
  /\ advResult' = uniqueRecommendations(recommendations \o artistRecs,
                                         userTrackIds(advArgs.userProfile), advArgs.limit)

\* the artist loop goes on to its next await, or is over
AdvArtistLoop(recommendations, artistsLeft, artistRecs) ==
  IF artistsLeft = <<>> THEN AdvReturn(recommendations, artistRecs)
  ELSE /\ advPc' = "artists"
       /\ advRecommendations' = recommendations
       /\ advArtistsLeft' = artistsLeft
       /\ advArtistRecs' = artistRecs
       /\ UNCHANGED advResult

\* lines 1169-1183 and 1213-1230: up to the request of the content strategy
GenerateAdvancedRecommendations ==
  /\ advPc = "called"
  /\ IF ContentSeeds(advArgs.userProfile.userTasteProfile,
                     ContentLimit(advArgs.limit)).thrown
     THEN advPc' = "thrown"
     ELSE advPc' = "content"
  /\ UNCHANGED <<advArgs, advRecommendations, advArtistsLeft, advArtistRecs, advResult>>
  /\ UNCHANGED AdvRest

\* the catalog answers the content strategy's request and its feature
\* lookup; the artist strategy starts (lines 1184-1190, 1253-1265)
ContentBasedResolves ==
  /\ advPc = "content"
  /\ \E tracks \in AdvCatalogAnswers :
     \E available \in {TrackIds, TrackIds \ {NTracks}} :
       AdvArtistLoop(
         ContentBased(advArgs.userProfile, userTrackIds(advArgs.userProfile), tracks,
                      available),
         Slice(advArgs.userProfile.userTasteProfile.preferredArtists, 0, ArtistStrategyCap),
         <<>>)
  /\ UNCHANGED advArgs
  /\ UNCHANGED AdvRest

\* a request of the content strategy fails: nothing catches
ContentBasedFails ==
  /\ advPc = "content"
  /\ advPc' = "thrown"
  /\ UNCHANGED <<advArgs, advRecommendations, advArtistsLeft, advArtistRecs, advResult>>
  /\ UNCHANGED AdvRest

\* the catalog answers the request for one preferred artist; the feature
\* lookups of the tracks in `failing` throw
ArtistBasedResolves ==
  /\ advPc = "artists"
  /\ \E tracks \in AdvCatalogAnswers :
     \E failing \in SUBSET {tracks[k].id : k \in 1..Len(tracks)} :
       AdvArtistLoop(
         advRecommendations,
         Tail(advArtistsLeft),
         ArtistTracks(advArtistRecs, tracks, failing, userTrackIds(advArgs.userProfile),
                      ArtistLimit(advArgs.limit), advArgs.userProfile.userTasteProfile))
  /\ UNCHANGED advArgs
  /\ UNCHANGED AdvRest

\* the request for one preferred artist fails: the catch of line 1284
ArtistBasedFails ==
  /\ advPc = "artists"
  /\ AdvArtistLoop(advRecommendations, Tail(advArtistsLeft), advArtistRecs)
  /\ UNCHANGED advArgs
  /\ UNCHANGED AdvRest

AdvNext ==
  \/ GenerateAdvancedRecommendations
  \/ ContentBasedResolves
  \/ ContentBasedFails
  \/ ArtistBasedResolves
  \/ ArtistBasedFails

SpecAdvanced == AdvInit /\ [][AdvNext]_vars

AdvIds(recs) == [k \in 1..Len(recs) |-> recs[k].track.id]

\* C22: the list generateAdvancedRecommendations returns holds no track
\* identifier twice; the entry kept for an identifier is its first
\* occurrence in merge order (content-based before artist-based); no
\* identifier is one of the listener's liked, recent or playlist tracks;
\* and the list has at most limit entries.
C22_MergedListUniqueAndCapped ==
  advPc = "returned" =>
    LET exclude == userTrackIds(advArgs.userProfile) IN
    /\ \A i, j \in 1..Len(advResult) :
          i # j => advResult[i].track.id # advResult[j].track.id
    /\ \A k \in 1..Len(advResult) :
          /\ advResult[k] \in Range(advRecommendations)
          /\ advResult[k] =
               advRecommendations[FindIndexOfId(advRecommendations, advResult[k].track.id)]
          /\ advResult[k].track.id \notin exclude
          /\ advResult[k].track.id \notin
               {t.id : t \in Range(advArgs.userProfile.likedTracks)}
                 \cup {t.id : t \in Range(advArgs.userProfile.recentTracks)}
    /\ Len(advResult) <= advArgs.limit

\* the same track came from both strategies, its content-based entry leads
\* the returned list, and the listener has playlist tracks
C22_Witness ==
  /\ advPc = "returned"
  /\ advResult # <<>>
  /\ \E i, j \in 1..Len(advRecommendations) :
        /\ advRecommendations[i].sourceType = "content-based"
        /\ advRecommendations[j].sourceType = "collaborative"
        /\ advRecommendations[i].track.id = advRecommendations[j].track.id
        /\ advRecommendations[i].track.id = advResult[1].track.id
  /\ Len(advArgs.userProfile.playlistTracks) > 0

(***************************************************************************)
(* SpecSort: lines 913-919 of getLastFmRecommendations applied to bounded  *)
(* candidate lists.                                                        *)
(***************************************************************************)
MaxSortCandidates == 5

\* the scores a candidate can have
SortScores == {R(1, 5), R(7, 25), R(17, 50), R(21, 50), R(1, 2)}
SortLimits == {3, 20}

\* a candidate: only its score takes part in the ordering
SortCandidate(score) == [track |-> [id |-> (score.num * 100) \div score.den],
                         similarityScore |-> score]

\* The candidate lists: the shuffle makes the order of collection
\* irrelevant, so each set of candidates is listed once, no score twice.
SortInputs ==
  {q \in UNION {[1..n -> {SortCandidate(x) : x \in SortScores}] : n \in 0..MaxSortCandidates} :
     \A i, j \in 1..Len(q) : i < j => RLt(q[i].similarityScore, q[j].similarityScore)}

SortRest == <<simVars, seedVars, profVars, recVars, custVars, concVars, advVars, likedVars, reqVars, authVars, apiVars>>

SortInit ==
  /\ sortArgs \in [recommendations : SortInputs, limit : SortLimits]
  /\ sortPc = "collected"
  /\ sortResult = <<>>
  /\ SimIdle
  /\ SeedIdle
  /\ ProfIdle
  /\ RecIdle
  /\ CustIdle
  /\ ConcIdle
  /\ AdvIdle
  /\ LikedIdle
  /\ ReqIdle
  /\ AuthIdle
  /\ ApiIdle

\* lines 913-919
SortAndReturn ==
  /\ sortPc = "collected"
  /\ sortResult' \in ShuffleSortSliceOutcomes(sortArgs.recommendations, sortArgs.limit)
  /\ sortPc' = "returned"
  /\ UNCHANGED sortArgs
  /\ UNCHANGED SortRest

SortNext == SortAndReturn

SpecSort == SortInit /\ [][SortNext]_vars

MaxLibrary == 101
LikedPageLimit == 50

LikedRest == <<simVars, seedVars, profVars, recVars, custVars, concVars, advVars, sortVars, reqVars, authVars, apiVars>>

\* GET /me/tracks?limit&offset: the items from offset on, at most limit
LikedPage(library, limit, offset) ==
  LET tracks == Slice(library, offset, offset + limit)
  IN  [items |-> [k \in 1..Len(tracks) |-> [track |-> tracks[k]]]]

\* The loop left only by an empty page.
LastPage_OnlyWhenEmpty(tracks, limit) == Len(tracks) = 0

\* if (tracks.length < limit) break
LastPage(tracks, limit) == Len(tracks) < limit

LikedInit ==
  /\ likedLibrary \in {ManyTracks(0, n) : n \in 0..MaxLibrary}
  /\ likedPc = "called"
  /\ likedOffset = 0
  /\ likedAllTracks = <<>>
  /\ likedRequests = <<>>
  /\ SimIdle
  /\ SeedIdle
  /\ ProfIdle
  /\ RecIdle
  /\ CustIdle
  /\ ConcIdle
  /\ AdvIdle
  /\ SortIdle
  /\ ReqIdle
  /\ AuthIdle
  /\ ApiIdle

\* lines 663-669: the locals are set and the first page is asked for
GetAllLikedTracks ==
  /\ likedPc = "called"
  /\ likedPc' = "waiting"
  /\ likedRequests' = Append(likedRequests, likedOffset)
  /\ UNCHANGED <<likedLibrary, likedOffset, likedAllTracks>>
  /\ UNCHANGED LikedRest

\* a page arrives (lines 669-674): either the loop ends and the list is
\* returned, or the next page is asked for
LikedPageResolves ==
  /\ likedPc = "waiting"
  /\ LET response == LikedPage(likedLibrary, LikedPageLimit, likedOffset)
         tracks == [k \in 1..Len(response.items) |-> response.items[k].track]
     IN  /\ likedAllTracks' = likedAllTracks \o tracks
         /\ IF LastPage(tracks, LikedPageLimit)
            THEN /\ likedPc' = "returned"
                 /\ UNCHANGED <<likedOffset, likedRequests>>
            ELSE /\ likedOffset' = likedOffset + LikedPageLimit
                 /\ likedRequests' = Append(likedRequests, likedOffset + LikedPageLimit)
                 /\ UNCHANGED likedPc
  /\ UNCHANGED likedLibrary
  /\ UNCHANGED LikedRest

\* makeRequest throws: nothing in getAllLikedTracks catches
LikedPageFails ==
  /\ likedPc = "waiting"
  /\ likedPc' = "thrown"
  /\ UNCHANGED <<likedLibrary, likedOffset, likedAllTracks, likedRequests>>
  /\ UNCHANGED LikedRest

LikedNext == GetAllLikedTracks \/ LikedPageResolves \/ LikedPageFails

SpecLiked == LikedInit /\ [][LikedNext]_vars
\* a pending request is answered or fails
SpecLikedFair == SpecLiked /\ WF_vars(LikedNext)

\* C24: for a library of N liked tracks served in pages of 50 the call
\* ends; when it returns it has sent floor(N/50)+1 page requests with
\* strictly increasing offsets and returns the N tracks, each once, in the
\* catalog's order.
C24_FullTraversalInPages ==
  /\ [](likedPc = "returned" =>
          /\ Len(likedRequests) = (Len(likedLibrary) \div LikedPageLimit) + 1
          /\ \A i, j \in 1..Len(likedRequests) :
                i < j => likedRequests[i] < likedRequests[j]
          /\ likedAllTracks = likedLibrary)
  /\ <>(likedPc \in {"returned", "thrown"})

\* a library of exactly two full pages was traversed with three requests
C24_Witness ==
  /\ likedPc = "returned"
  /\ Len(likedLibrary) = 2 * LikedPageLimit
  /\ likedRequests = <<0, LikedPageLimit, 2 * LikedPageLimit>>
  /\ Len(likedAllTracks) = 2 * LikedPageLimit

(***************************************************************************)
(* SpecRequests: the requests one getLastFmRecommendations call sends      *)
(* inside its try block (lines 772-911), for listeners with more preferred *)
(* artists, liked tracks and similar artists than the loops visit.         *)
(***************************************************************************)
MaxReqSeeds == 6          \* longest preferredArtists list
MaxReqLiked == 4          \* longest likedTracks list
MaxReqSimilar == 4        \* longest similar-artist answer
SimilarArtistsLimit == 10 \* getSimilarArtists(artistName, 10)
ArtistSearchLimit == 5    \* searchTracks(..., `artist:"..."`, 5)
SimilarTracksLimit == 5   \* getSimilarTracks(artistName, trackName, 5)
TrackSearchLimit == 1     \* searchTracks(..., searchQuery, 1)

ReqRest == <<simVars, seedVars, profVars, recVars, custVars, concVars, advVars, sortVars, likedVars, authVars, apiVars>>

\* A catalog track t of artist a.
TrackBy(t, a) ==
  [id |-> t, name |-> <<"t", Digit(t \div 10), Digit(t)>>,
   artists |-> <<[id |-> a, name |-> ArtistName(a)]>>, popularity |-> 50]

\* A listener with nSeeds preferred artists and nLiked liked tracks; liked
\* track k is by artist k, the recent tracks are by the artists named in
\* recentBy.
RequestProfile(nSeeds, nLiked, recentBy) ==
  UserMusicProfile(
    [k \in 1..nLiked |-> TrackBy(10 + k, k)], <<>>, <<>>,
    [k \in 1..Len(recentBy) |-> TrackBy(20 + k, recentBy[k])], <<>>,
    [DefaultTasteProfile(<<>>) EXCEPT
       !.preferredArtists = [k \in 1..nSeeds |-> [artistId |-> k, weight |-> 50]]])

RequestProfiles ==
  {RequestProfile(MaxReqSeeds, MaxReqLiked, <<5, 6>>),
   RequestProfile(3, 2, <<>>)}
RequestLimits == {2, 20}

\* The artists Last.fm names as similar, and what it answers.
SimilarPool == [k \in 1..MaxReqSimilar |-> 6 + k]
ReqSimilarArtistsAnswers ==
  {[k \in 1..n |-> LastFmArtist(ArtistName(SimilarPool[k]), LastFmMatch(SimilarPool[k]))] :
     n \in {0, 1, MaxReqSimilar}}

\* The catalog's tracks of a similar artist, which it answers to
\* artist:"name".
TracksOfSimilar(a) == <<TrackBy(10 * a + 1, a), TrackBy(10 * a + 2, a)>>
ReqArtistSearchAnswers(name) ==
  {TracksOfSimilar(a) : a \in {b \in Range(SimilarPool) : ArtistName(b) = name}}

\* The tracks Last.fm names as similar to a liked track.
ReqLastFmTrack(track) == LastFmTrack(FirstArtistName(track), track.name, Some(R(9, 10)))
ReqSimilarTracksAnswers ==
  LET first == TracksOfSimilar(SimilarPool[1])
      last == TracksOfSimilar(SimilarPool[MaxReqSimilar])
  IN  {<<>>,
       <<ReqLastFmTrack(first[1]), ReqLastFmTrack(last[1])>>,
       <<ReqLastFmTrack(last[1]), ReqLastFmTrack(last[2])>>}
ReqTrackSearchAnswers(lastFmTrack) ==
  {<<>>} \cup
  {<<t>> : t \in {u \in UNION {Range(TracksOfSimilar(a)) : a \in Range(SimilarPool)} :
                    ReqLastFmTrack(u) = lastFmTrack}}

\* The request a call waits for at its await; index is the position of the
\* preferred artist, or of the liked track, the request is made for.
RequestOf(c, profile_) ==
  LET seed == Len(Slice(profile_.userTasteProfile.preferredArtists, 0, SeedArtistCap))
                - Len(c.seedsLeft)
      fav == Len(Slice(profile_.likedTracks, 0, FavoriteTrackCap)) - Len(c.favLeft)
  IN  IF c.pc = "similarArtists"
      THEN <<[kind |-> "getSimilarArtists", index |-> seed, limit |-> SimilarArtistsLimit,
              name |-> c.artistName]>>
      ELSE IF c.pc = "artistSearch"
      THEN <<[kind |-> "artistSearch", index |-> seed, limit |-> ArtistSearchLimit,
              name |-> c.lastFmArtist.name]>>
      ELSE IF c.pc = "similarTracks"
      THEN <<[kind |-> "getSimilarTracks", index |-> fav, limit |-> SimilarTracksLimit,
              name |-> c.fav.name]>>
      ELSE IF c.pc = "trackSearch"
      THEN <<[kind |-> "trackSearch", index |-> fav, limit |-> TrackSearchLimit,
              name |-> TrackKey(c.lastFmTrack.artist.name, c.lastFmTrack.name)]>>
      ELSE <<>>

\* A similar-track list received for liked track number index.
Received(c, profile_, answer) ==
  <<[kind |-> "similarTracks", index |-> RequestOf(c, profile_)[1].index,
     limit |-> Len(answer), name |-> <<>>]>>

ReqGoto(received, c) ==
  /\ reqCall' = c
  /\ reqLog' = reqLog \o received \o RequestOf(c, reqProfile)
  /\ UNCHANGED <<reqProfile, reqLimit>>
  /\ UNCHANGED ReqRest

ReqInit ==
  /\ SimIdle
  /\ SeedIdle
  /\ ProfIdle
  /\ RecIdle
  /\ CustIdle
  /\ ConcIdle
  /\ AdvIdle
  /\ SortIdle
  /\ LikedIdle
  /\ AuthIdle
  /\ ApiIdle
  /\ reqProfile \in RequestProfiles
  /\ reqLimit \in RequestLimits
  /\ reqCall = [pc |-> "called"]
  /\ reqLog = <<>>

\* lines 765-782: the call runs to its first await
ReqStart ==
  /\ reqCall.pc = "called"
  /\ ReqGoto(<<>>, StartLastFm(reqProfile, reqLimit))

\* line 782
ReqSimilarArtistsResolve ==
  /\ reqCall.pc = "similarArtists"
  /\ \E answer \in ReqSimilarArtistsAnswers :
       ReqGoto(<<>>, SimilarArtistLoop(
                       [reqCall EXCEPT !.similarLeft = SimilarArtistsToVisit(answer)],
                       reqProfile, reqLimit))

\* getSimilarArtists catches and returns []
ReqSimilarArtistsFail ==
  /\ reqCall.pc = "similarArtists"
  /\ ReqGoto(<<>>, SimilarArtistLoop([reqCall EXCEPT !.similarLeft = <<>>],
                                     reqProfile, reqLimit))

\* lines 786-836
ReqArtistSearchResolves ==
  /\ reqCall.pc = "artistSearch"
  /\ \E items \in ReqArtistSearchAnswers(reqCall.lastFmArtist.name) :
       LET acc == ArtistTracksLoop(
                    [recs |-> reqCall.recommendations, seen |-> reqCall.seenTracks],
                    items, {}, reqCall.artistName, reqCall.lastFmArtist,
                    reqProfile.userTasteProfile, reqLimit)
           c == [reqCall EXCEPT !.recommendations = acc.recs, !.seenTracks = acc.seen]
       IN  ReqGoto(<<>>, IF Len(acc.recs) >= reqLimit
                         THEN Extension(c, reqProfile, reqLimit)
                         ELSE SimilarArtistLoop(c, reqProfile, reqLimit))

\* searchTracks throws: line 909 catches
ReqArtistSearchFails ==
  /\ reqCall.pc = "artistSearch"
  /\ ReqGoto(<<>>, ToSort(reqCall))

\* line 852
ReqSimilarTracksResolve ==
  /\ reqCall.pc = "similarTracks"
  /\ \E answer \in ReqSimilarTracksAnswers :
       ReqGoto(Received(reqCall, reqProfile, answer),
               SimilarTrackLoop([reqCall EXCEPT !.tracksLeft = answer], reqLimit))

\* getSimilarTracks catches and returns []
ReqSimilarTracksFail ==
  /\ reqCall.pc = "similarTracks"
  /\ ReqGoto(Received(reqCall, reqProfile, <<>>),
             SimilarTrackLoop([reqCall EXCEPT !.tracksLeft = <<>>], reqLimit))

\* lines 864-904
ReqTrackSearchResolves ==
  /\ reqCall.pc = "trackSearch"
  /\ \E items \in ReqTrackSearchAnswers(reqCall.lastFmTrack) :
       ReqGoto(<<>>, SimilarTrackLoop(
                       [reqCall EXCEPT !.recommendations =
                          TrackSearchPush(reqCall.recommendations, items, {}, reqCall.fav,
                                          reqCall.lastFmTrack, reqProfile.userTasteProfile)],
                       reqLimit))

\* searchTracks throws: line 909 catches
ReqTrackSearchFails ==
  /\ reqCall.pc = "trackSearch"
  /\ ReqGoto(<<>>, ToSort(reqCall))

ReqNext ==
  \/ ReqStart
  \/ ReqSimilarArtistsResolve
  \/ ReqSimilarArtistsFail
  \/ ReqArtistSearchResolves
  \/ ReqArtistSearchFails
  \/ ReqSimilarTracksResolve
  \/ ReqSimilarTracksFail
  \/ ReqTrackSearchResolves
  \/ ReqTrackSearchFails

SpecRequests == ReqInit /\ [][ReqNext]_vars

LogEntries(kind) == {i \in 1..Len(reqLog) : reqLog[i].kind = kind}
LogEntriesFor(kind, index) == {i \in LogEntries(kind) : reqLog[i].index = index}

\* C25: one call asks Last.fm for the similar artists of at most the first
\* five preferred artists, at most once each and with limit 10; makes at
\* most three artist searches (limit 5) per such seed; asks for the similar
\* tracks (limit 5) of at most three liked tracks, the first three; and
\* makes at most one exact search per similar track received.
C25_RequestsPerCallBounded ==
  /\ \A i \in LogEntries("getSimilarArtists") :
        /\ reqLog[i].index \in 1..SeedArtistCap
        /\ reqLog[i].limit = SimilarArtistsLimit
        /\ Cardinality(LogEntriesFor("getSimilarArtists", reqLog[i].index)) = 1
  /\ \A i \in LogEntries("artistSearch") :
        /\ reqLog[i].limit = ArtistSearchLimit
        /\ LogEntriesFor("getSimilarArtists", reqLog[i].index) # {}
        /\ Cardinality(LogEntriesFor("artistSearch", reqLog[i].index)) <= SimilarArtistCap
  /\ Cardinality(LogEntries("getSimilarTracks")) <= FavoriteTrackCap
  /\ \A i \in LogEntries("getSimilarTracks") :
        /\ reqLog[i].index \in 1..FavoriteTrackCap
        /\ reqLog[i].limit = SimilarTracksLimit
        /\ Cardinality(LogEntriesFor("getSimilarTracks", reqLog[i].index)) = 1
  /\ \A i \in LogEntries("trackSearch") :
        /\ reqLog[i].limit = TrackSearchLimit
        /\ \A j \in LogEntries("trackSearch") : reqLog[j].name = reqLog[i].name => j = i
        /\ \E r \in LogEntriesFor("similarTracks", reqLog[i].index) :
              Cardinality(LogEntriesFor("trackSearch", reqLog[i].index)) <= reqLog[r].limit

\* a call for a listener with six preferred artists and four liked tracks
\* has ended: five seeds were asked about, one of them with a list of four
\* similar artists, and three liked tracks
C25_Witness ==
  /\ reqCall.pc = "sort"
  /\ Len(reqProfile.userTasteProfile.preferredArtists) = MaxReqSeeds
  /\ Len(reqProfile.likedTracks) = MaxReqLiked
  /\ Cardinality(LogEntries("getSimilarArtists")) = SeedArtistCap
  /\ \E index \in 1..SeedArtistCap :
        Cardinality(LogEntriesFor("artistSearch", index)) = SimilarArtistCap
  /\ Cardinality(LogEntries("getSimilarTracks")) = FavoriteTrackCap
  /\ LogEntries("trackSearch") # {}

\* C26: the track list a call hands to calculateTasteProfile holds each
\* catalog track identifier at most once, so that a track present in
\* several signals adds its vector once to each average.
C26_UniverseHasEachIdOnce ==
  profPc = "done" =>
    LET tracks == uniqueTracks(fetched.top, fetched.recent, fetched.liked, playlistTracks)
        withVector == {tracks[k].id : k \in 1..Len(tracks)} \cap DOMAIN audioFeatures
    IN  /\ \A i, j \in 1..Len(tracks) : i # j => tracks[i].id # tracks[j].id
        /\ Len(ValidFeatures(tracks, audioFeatures)) = Cardinality(withVector)

\* C27: every recommendation of a custom response carries, as its vector,
\* the vector of its own track (audioFeatures.id = track.id), also when the
\* catalog has no vector for some of the recommended tracks.
C27_VectorBelongsToTrack ==
  (custPc = "responded" /\ custResponse.status = 200) =>
    \A index \in 1..Len(custResponse.data.recommendations) :
      LET rec == custResponse.data.recommendations[index]
      IN  "id" \in DOMAIN rec.audioFeatures => rec.audioFeatures.id = rec.track.id

\* C28: when a request whose recommendations were generated from a built
\* profile is answered, the userTasteProfile of the response is the taste
\* profile of that profile, whatever the collaborators answer during the
\* request.
C28_ResponseProfileIsScoringProfile ==
  (recPc = "responded" /\ recResponse.status = 200 /\ recProfile # NoProfile) =>
    recResponse.data.userTasteProfile = recProfile.userTasteProfile

(***************************************************************************)
(* SpecAuth: the temporary tokens of routes/auth.ts.  GET /callback stores *)
(* the user data under a token drawn with Math.random and starts a timer   *)
(* that deletes the entry; POST /exchange-token moves the entry into the   *)
(* caller's session.  The handlers share global.tempTokens.                *)
(***************************************************************************)
MaxCallbacks == 2         \* callbacks that reach line 76
MaxExchanges == 3         \* /exchange-token requests
AuthRest == <<simVars, seedVars, profVars, recVars, custVars, concVars, advVars, sortVars, likedVars, reqVars, apiVars>>

\* What Math.random().toString(36).substring(7) can give: a few characters
\* of 0-9a-z, none when the number has a short expansion (0.5 is "0.i").
TempTokenStrings == {"", "k3j9x", "p0q2m"}
\* The token of a request body: absent, one of the above, or another string.
BodyTokens == {Undefined} \cup {Some(t) : t \in TempTokenStrings \cup {"zzzzz"}}

AuthEvent(event, token, store, status) ==
  [event |-> event, token |-> token, store |-> store, status |-> status]

\* tempTokens[tempToken] = userData
PutToken(tokens, tempToken, userData) ==
  [t \in DOMAIN tokens \cup {tempToken} |-> IF t = tempToken THEN userData ELSE tokens[t]]

\* delete tempTokens[token]
DeleteToken(tokens, token) == [t \in DOMAIN tokens \ {token} |-> tokens[t]]

AuthInit ==
  /\ SimIdle
  /\ SeedIdle
  /\ ProfIdle
  /\ RecIdle
  /\ CustIdle
  /\ ConcIdle
  /\ AdvIdle
  /\ SortIdle
  /\ LikedIdle
  /\ ReqIdle
  /\ ApiIdle
  /\ tempTokens = <<>>
  /\ timers = {}
  /\ stores = 0
  /\ authSession = <<>>
  /\ authLog = <<>>

\* GET /callback with a code and a state, the token request and the profile
\* request answered (lines 40-99): the user data is stored and the timer
\* started.
Callback ==
  /\ stores < MaxCallbacks
  /\ \E tempToken \in TempTokenStrings :
       LET store == stores + 1
           userData == [user |-> store, store |-> store]
       IN  /\ tempTokens' = PutToken(tempTokens, tempToken, userData)
           /\ timers' = timers \cup {[token |-> tempToken, store |-> store]}
           /\ stores' = store
           /\ authLog' = Append(authLog, AuthEvent("stored", tempToken, store, 0))
  /\ UNCHANGED authSession
  /\ UNCHANGED AuthRest

\* the callback of setTimeout (lines 89-91)
TimerFires ==
  /\ \E timer \in timers :
       /\ tempTokens' = DeleteToken(tempTokens, timer.token)
       /\ timers' = timers \ {timer}
       /\ authLog' = Append(authLog, AuthEvent("fired", timer.token, timer.store, 0))
  /\ UNCHANGED <<stores, authSession>>
  /\ UNCHANGED AuthRest

ExchangesSoFar == Cardinality({i \in 1..Len(authLog) : authLog[i].event = "exchange"})

\* POST /exchange-token (lines 108-138)
ExchangeToken ==
  /\ ExchangesSoFar < MaxExchanges
  /\ \E token \in BodyTokens :
       IF ~token.some \/ token.v = ""
       THEN /\ authLog' = Append(authLog, AuthEvent("exchange",
                                   IF token.some THEN token.v ELSE "", 0, 400))
            /\ UNCHANGED <<tempTokens, authSession>>
       ELSE IF token.v \notin DOMAIN tempTokens
       THEN /\ authLog' = Append(authLog, AuthEvent("exchange", token.v, 0, 401))
            /\ UNCHANGED <<tempTokens, authSession>>
       ELSE LET userData == tempTokens[token.v]
            IN  /\ authSession' = [user |-> userData.user]
                /\ tempTokens' = DeleteToken(tempTokens, token.v)
                /\ authLog' = Append(authLog,
                                 AuthEvent("exchange", token.v, userData.store, 200))
  /\ UNCHANGED <<timers, stores>>
  /\ UNCHANGED AuthRest

AuthNext == Callback \/ TimerFires \/ ExchangeToken

SpecAuth == AuthInit /\ [][AuthNext]_vars

\* C29: a token stored by a callback is exchanged successfully at most
\* once; once it was exchanged, or the timer started with it has fired, no
\* later exchange of that token succeeds; and a token that no callback
\* stored is never exchanged successfully.
C29_TokenIsOneTime ==
  \A i, j \in 1..Len(authLog) :
    /\ (authLog[j].event = "exchange" /\ authLog[j].status = 200) =>
          \E k \in 1..(j - 1) :
            authLog[k].event = "stored" /\ authLog[k].token = authLog[j].token
    /\ (/\ i < j
        /\ authLog[i].token = authLog[j].token
        /\ \/ authLog[i].event = "exchange" /\ authLog[i].status = 200
           \/ authLog[i].event = "fired"
        /\ authLog[j].event = "exchange") => authLog[j].status # 200

(***************************************************************************)
(* SpecApi: one invocation of an ApiService method that refreshes the      *)
(* access token and calls itself again after a 401 (frontend,              *)
(* services/api.ts), against a server that may answer anything.            *)
(***************************************************************************)
MaxApiCount == 3      \* the request counters stop counting here
ApiRest == <<simVars, seedVars, profVars, recVars, custVars, concVars, advVars, sortVars, likedVars, reqVars, authVars>>

RetryingMethods ==
  {"getUserProfile", "getTopTracks", "getTopArtists", "getRecentlyPlayed",
   "getAudioFeatures", "testConnection"}
AccessTokens == {"", "a1", "a2"}
RefreshTokens == {"", "r1", "r2"}

CountUp(n) == IF n < MaxApiCount THEN n + 1 ELSE n

\* An error leaves the method: testConnection catches it and returns false
\* (lines 355-358), the other methods reject.
ApiError(method) == IF method = "testConnection" THEN "returned" ELSE "thrown"

ApiInit ==
  /\ SimIdle
  /\ SeedIdle
  /\ ProfIdle
  /\ RecIdle
  /\ CustIdle
  /\ ConcIdle
  /\ AdvIdle
  /\ SortIdle
  /\ LikedIdle
  /\ ReqIdle
  /\ AuthIdle
  /\ apiMethod \in RetryingMethods
  /\ apiPc = "called"
  /\ apiAccess \in AccessTokens
  /\ apiRefresh \in RefreshTokens
  /\ apiFetches = 0
  /\ apiRefreshes = 0

\* the method sends its request with the stored access token
ApiCall ==
  /\ apiPc = "called"
  /\ apiPc' = "fetch"
  /\ apiFetches' = CountUp(apiFetches)
  /\ UNCHANGED <<apiMethod, apiAccess, apiRefresh, apiRefreshes>>
  /\ UNCHANGED ApiRest

\* the server answers 2xx: response.json() is returned
ApiFetchOk ==
  /\ apiPc = "fetch"
  /\ apiPc' = "returned"
  /\ UNCHANGED <<apiMethod, apiAccess, apiRefresh, apiFetches, apiRefreshes>>
  /\ UNCHANGED ApiRest

\* the server answers 401: refreshAccessToken is called; without a stored
\* refresh token it throws (lines 177-180), otherwise it sends its request
ApiFetchUnauthorized ==
  /\ apiPc = "fetch"
  /\ IF apiRefresh = ""
     THEN /\ apiPc' = ApiError(apiMethod)
          /\ UNCHANGED apiRefreshes
     ELSE /\ apiPc' = "refresh"
          /\ apiRefreshes' = CountUp(apiRefreshes)
  /\ UNCHANGED <<apiMethod, apiAccess, apiRefresh, apiFetches>>
  /\ UNCHANGED ApiRest

\* the server answers another error status: the methods of lines 201-289
\* throw, testConnection returns data.connected
ApiFetchOtherStatus ==
  /\ apiPc = "fetch"
  /\ apiPc' = IF apiMethod = "testConnection" THEN "returned" ELSE "thrown"
  /\ UNCHANGED <<apiMethod, apiAccess, apiRefresh, apiFetches, apiRefreshes>>
  /\ UNCHANGED ApiRest

\* fetch rejects (no answer)
ApiFetchRejects ==
  /\ apiPc = "fetch"
  /\ apiPc' = ApiError(apiMethod)
  /\ UNCHANGED <<apiMethod, apiAccess, apiRefresh, apiFetches, apiRefreshes>>
  /\ UNCHANGED ApiRest

\* the refresh request is answered 2xx (lines 194-198): the tokens are
\* stored and the method calls itself, which sends its request again
ApiRefreshOk ==
  /\ apiPc = "refresh"
  /\ \E access_token \in AccessTokens, refresh_token \in RefreshTokens :
       /\ apiAccess' = access_token
       /\ apiRefresh' = IF refresh_token # "" THEN refresh_token ELSE apiRefresh
  /\ apiPc' = "fetch"
  /\ apiFetches' = CountUp(apiFetches)
  /\ UNCHANGED <<apiMethod, apiRefreshes>>
  /\ UNCHANGED ApiRest

\* the refresh request is answered with an error status, or rejects
ApiRefreshFails ==
  /\ apiPc = "refresh"
  /\ apiPc' = ApiError(apiMethod)
  /\ UNCHANGED <<apiMethod, apiAccess, apiRefresh, apiFetches, apiRefreshes>>
  /\ UNCHANGED ApiRest

ApiNext ==
  \/ ApiCall
  \/ ApiFetchOk
  \/ ApiFetchUnauthorized
  \/ ApiFetchOtherStatus
  \/ ApiFetchRejects
  \/ ApiRefreshOk
  \/ ApiRefreshFails

SpecApi == ApiInit /\ [][ApiNext]_vars
\* every request is answered or fails
SpecApiFair == SpecApi /\ WF_vars(ApiNext)

\* C30: an invocation of a retrying ApiService method ends (it returns or
\* throws) whatever the server answers, after finitely many refresh
\* requests and repeated requests.
C30_RetryingCallEnds == <>(apiPc \in {"returned", "thrown"})
====
